---------------------------- MODULE Spec2Model ----------------------------
(***************************************************************************)
(* Verification model of the dynamic page configuration engine             *)
(* (page-builder parser and renderer) and of the page that hosts it        *)
(* (pages/dynamic/index.vue).                                              *)
(*                                                                         *)
(* JavaScript values are modelled as tagged records: the tag k is what     *)
(* typeof / Array.isArray / truthiness look at, v is the payload.          *)
(***************************************************************************)
EXTENDS Integers, Sequences, FiniteSets, TLC

VARIABLES
    config,          \* the argument of validatePageConfig / parsePageConfig
    userPermissions, \* the second argument of parsePageConfig
    pc,              \* position of the caller: "input", "validated", "parsed"
    validation,      \* what validatePageConfig(config) returned
    parseResult,     \* what parsePageConfig(config, userPermissions) returned or threw
    \* pages/dynamic/index.vue
    props,           \* the props of the page: [pageCode, config]
    mounted,         \* onMounted has run
    loading,         \* loading.value
    error,           \* error.value
    pageConfig,      \* pageConfig.value
    parsedPage,      \* parsedPage.value
    dataSources,     \* dataSources.value, the Map the ref holds now
    runs,            \* the calls of initPage: where each one is, and its locals
    \* page-builder/renderer
    registry,        \* componentRegistry: the names that have a component
    tree,            \* the ParsedPage handed to the renderer
    vnodes,          \* a call renderPage(tree, options): its options and its result
    hostNodes,       \* what the template of the page renders for tree
    \* page-builder/parser: getDataBindings
    bindings,        \* what getDataBindings(config) returned
    \* page-builder/parser: a caller that calls it again and again
    calls,           \* the calls of validatePageConfig and parsePageConfig made so far, with their results
    \* utils/http retry: withRetry
    retry,           \* a call of withRetry: its configuration, its locals and its requests
    \* utils/http token refresh: refreshToken, withTokenRefresh
    storedUser,      \* the user record in storage under mes-wms-user, or null
    refreshState,    \* isRefreshing and pendingRequests of the token refresh
    inFlight,        \* the callers whose refresh request is with the server
    issued,          \* the tokens the server has issued
    callers,         \* the calls of refreshToken and withTokenRefresh
    \* services/sync: the offline queue
    state,           \* isSyncing and items of the sync service
    storedQueue,     \* what storage holds under sync_queue, or null
    initialised,     \* initSyncService has run since the application started
    checking,        \* the first network check of initSyncService is not answered yet
    passes,          \* the calls of processQueue
    nextId,          \* the ids generated so far
    batch,           \* the ids added since the last operation other than addToQueue
    delivered,       \* the ids whose request the server has answered with success
    removed,         \* the ids taken out by removeFromQueue or clearQueue
    evicted,         \* the ids shifted out by addToQueue on a full queue
    owed,            \* the ids queued when the network came back and not sent since
    \* services/storage: serialize and deserialize
    storedText,      \* the string serialize has produced, or none
    original,        \* the value given to serialize
    expiry,          \* the expire argument given to serialize
    writtenAt,       \* Date.now() when serialize ran
    dateNow,         \* Date.now()
    readBack,        \* what deserialize has returned last, or none
    readAt,          \* Date.now() when deserialize ran last
    \* services/auth: hasPageAccess
    cachedPermissions, \* the permission list of the auth service
    access,          \* the last call of hasPageAccess: its argument and its result
    \* services/log: the log cache and its upload
    logCache,        \* the log entries held in memory, oldest first
    storedLogs,      \* what storage holds under app_logs
    flushes,         \* the calls of flush, by number
    nextEntry,       \* the number of entries logged so far
    uploadCount,     \* how often each entry was uploaded successfully
    deleted,         \* the entries that a flush removed from the cache
    \* composables/useWorkReport: the quantities of the report form
    reportForm,      \* the quantities of the work-report form
    lastUpdate,      \* the arguments of the last updateQuantity call, None after a reset
    \* composables/useEquipment, useException: the status of exception records
    exceptions,      \* the exception records of useException, as loaded
    handleForm,      \* the form of handleException: exceptionId and handleResult
    submitting,      \* submitting.value
    errorMessage,    \* errorMessage.value of useException
    handling         \* the calls of handleException that await onHandle

parserVars == <<config, userPermissions, pc, validation, parseResult>>
hostVars == <<props, mounted, loading, error, pageConfig, parsedPage, dataSources, runs>>
renderVars == <<tree, vnodes, hostNodes>>
bindingsVars == <<bindings>>
callsVars == <<calls>>
retryVars == <<retry>>
tokenVars == <<storedUser, refreshState, inFlight, issued, callers>>
syncVars == <<state, storedQueue, initialised, checking, passes, nextId, batch, delivered, removed, evicted, owed>>
storageVars == <<storedText, original, expiry, writtenAt, dateNow, readBack, readAt>>
accessVars == <<cachedPermissions, access>>
logVars == <<logCache, storedLogs, flushes, nextEntry, uploadCount, deleted>>
reportVars == <<reportForm, lastUpdate>>
exceptionVars == <<exceptions, handleForm, submitting, errorMessage, handling>>
\* What the actions of one part of the program leave alone.
otherThanParser == <<hostVars, registry, renderVars, bindingsVars, callsVars, retryVars, tokenVars, syncVars, storageVars, accessVars, logVars, reportVars, exceptionVars>>
otherThanHost == <<parserVars, renderVars, bindingsVars, callsVars, retryVars, tokenVars, syncVars, storageVars, accessVars, logVars, reportVars, exceptionVars>>
otherThanRender == <<parserVars, hostVars, bindingsVars, callsVars, retryVars, tokenVars, syncVars, storageVars, accessVars, logVars, reportVars, exceptionVars>>
otherThanBindings == <<parserVars, hostVars, registry, renderVars, callsVars, retryVars, tokenVars, syncVars, storageVars, accessVars, logVars, reportVars, exceptionVars>>
otherThanCalls == <<parserVars, hostVars, registry, renderVars, bindingsVars, retryVars, tokenVars, syncVars, storageVars, accessVars, logVars, reportVars, exceptionVars>>
otherThanRetry == <<parserVars, hostVars, registry, renderVars, bindingsVars, callsVars, tokenVars, syncVars, storageVars, accessVars, logVars, reportVars, exceptionVars>>
otherThanToken == <<parserVars, hostVars, registry, renderVars, bindingsVars, callsVars, retryVars, syncVars, storageVars, accessVars, logVars, reportVars, exceptionVars>>
otherThanSync == <<parserVars, hostVars, registry, renderVars, bindingsVars, callsVars, retryVars, tokenVars, storageVars, accessVars, logVars, reportVars, exceptionVars>>
otherThanStorage == <<parserVars, hostVars, registry, renderVars, bindingsVars, callsVars, retryVars, tokenVars, syncVars, accessVars, logVars, reportVars, exceptionVars>>
otherThanAccess == <<parserVars, hostVars, registry, renderVars, bindingsVars, callsVars, retryVars, tokenVars, syncVars, storageVars, logVars, reportVars, exceptionVars>>
otherThanLog == <<parserVars, hostVars, registry, renderVars, bindingsVars, callsVars, retryVars, tokenVars, syncVars, storageVars, accessVars, reportVars, exceptionVars>>
otherThanReport == <<parserVars, hostVars, registry, renderVars, bindingsVars, callsVars, retryVars, tokenVars, syncVars, storageVars, accessVars, logVars, exceptionVars>>
otherThanException == <<parserVars, hostVars, registry, renderVars, bindingsVars, callsVars, retryVars, tokenVars, syncVars, storageVars, accessVars, logVars, reportVars>>
vars == <<parserVars, hostVars, registry, renderVars, bindingsVars, callsVars, retryVars, tokenVars, syncVars, storageVars, accessVars, logVars, reportVars, exceptionVars>>

-----------------------------------------------------------------------------
(* JavaScript values                                                       *)

Undefined == [k |-> "undefined"]
Null == [k |-> "null"]
Bool(b) == [k |-> "boolean", v |-> b]
Num(n) == [k |-> "number", v |-> n]
Str(s) == [k |-> "string", v |-> s]
Arr(s) == [k |-> "array", v |-> s]
Obj(f) == [k |-> "object", v |-> f]

\* An object literal with no property.
NoProps == [n \in {} |-> Undefined]

\* typeof x
TypeOf(x) ==
    CASE x.k = "undefined" -> "undefined"
      [] x.k = "boolean" -> "boolean"
      [] x.k = "number" -> "number"
      [] x.k = "string" -> "string"
      [] OTHER -> "object"

\* !x
Falsy(x) ==
    \/ x.k \in {"undefined", "null"}
    \/ x.k = "boolean" /\ x.v = FALSE
    \/ x.k = "number" /\ x.v = 0
    \/ x.k = "string" /\ x.v = ""

\* Array.isArray(x)
IsArray(x) == x.k = "array"

\* Reading a property of null or undefined throws a TypeError.
ReadThrows(x) == x.k \in {"null", "undefined"}

\* x.name for an x that is neither null nor undefined: an own property of an
\* object, undefined for a property that is absent (the names read by the
\* parser are own properties of no array and of no primitive).
Get(x, name) ==
    IF x.k = "object" /\ name \in DOMAIN x.v THEN x.v[name] ELSE Undefined

\* name in x, for an object or an array x
HasProp(x, name) == x.k = "object" /\ name \in DOMAIN x.v

\* { ...x }: the own enumerable properties of an object; none for null,
\* undefined, a number or a boolean.
Spread(x) == IF x.k = "object" THEN Obj(x.v) ELSE Obj(NoProps)

\* A thrown TypeError (property read of null/undefined, call of a non-function,
\* `in` applied to a primitive).
TypeError == [k |-> "throw", name |-> "TypeError"]

\* new ParseError(message, path, details)
ParseError(path, details) ==
    [k |-> "throw", name |-> "ParseError", path |-> path, details |-> details]

Threw(r) == r.k = "throw"

-----------------------------------------------------------------------------
(* Component Type Registry                                                 *)

SUPPORTED_COMPONENT_TYPES ==
    << "MButton", "MInput", "MCard", "MList", "MText", "MImage", "MIcon",
       "MScanner", "MTable", "MForm", "MWorkOrderCard", "MLocationPicker",
       "MContainer", "MRow", "MCol", "MGrid", "MScrollView",
       "MSelect", "MDatePicker", "MSwitch", "MRadio", "MCheckbox" >>

\* new Set(SUPPORTED_COMPONENT_TYPES)
componentTypeSet ==
    { SUPPORTED_COMPONENT_TYPES[i] : i \in DOMAIN SUPPORTED_COMPONENT_TYPES }

\* componentTypeSet.has(x): SameValueZero against the strings of the set
TypeSetHas(x) == x.k = "string" /\ x.v \in componentTypeSet

isComponentTypeSupported(type) == TypeSetHas(Str(type))

-----------------------------------------------------------------------------
(* Validator                                                               *)
(* A ValidationError is modelled by its path and code; its message is a    *)
(* fixed text per check and is left out.  A validator returns              *)
(* [threw, errors]: threw is TRUE when the JavaScript would have thrown.   *)

ValidationError(path, code) == [path |-> path, code |-> code]

Errors(errs) == [threw |-> FALSE, errors |-> errs]
Thrown == [threw |-> TRUE, errors |-> <<>>]

\* errors.push(...more)
Push(acc, more) ==
    IF acc.threw \/ more.threw THEN Thrown
    ELSE Errors(acc.errors \o more.errors)

\* `${path}[${index}]` for the 0-based index of the i-th element
Indexed(path, i) == path \o "[" \o ToString(i - 1) \o "]"

\* !config || typeof config !== 'object'
NotAnObject(x) == Falsy(x) \/ TypeOf(x) # "object"

\* !x || typeof x !== 'string'
NotAString(x) == Falsy(x) \/ TypeOf(x) # "string"

\* comp.props !== undefined && typeof comp.props !== 'object'
BadProps(value) == value # Undefined /\ TypeOf(value) # "object"

\* TypeErrors without the registry lookup
TypeErrorsWithoutRegistry(type, path) ==
    IF NotAString(type)
    THEN << ValidationError(path \o ".type", "REQUIRED_FIELD") >>
    ELSE << >>

\* The check of comp.type: REQUIRED_FIELD, else UNSUPPORTED_TYPE
TypeErrors(type, path) ==
    IF NotAString(type)
    THEN << ValidationError(path \o ".type", "REQUIRED_FIELD") >>
    ELSE IF ~TypeSetHas(type)
         THEN << ValidationError(path \o ".type", "UNSUPPORTED_TYPE") >>
         ELSE << >>

RECURSIVE validateComponentConfig(_, _)
RECURSIVE ValidateChildren(_, _, _)
RECURSIVE ValidateChildrenUntilError(_, _, _)

\* ValidateChildren stopping at the first element that has an error
ValidateChildrenUntilError(items, path, i) ==
    IF i > Len(items) THEN Errors(<< >>)
    ELSE LET head == validateComponentConfig(items[i], Indexed(path, i))
         IN  IF head.threw \/ Len(head.errors) > 0 THEN head
             ELSE ValidateChildrenUntilError(items, path, i + 1)

\* comp.children.forEach((child, index) => errors.push(...validateComponentConfig(
\*     child, `${path}.children[${index}]`))), from element i on
ValidateChildren(items, path, i) ==
    IF i > Len(items) THEN Errors(<< >>)
    ELSE Push(validateComponentConfig(items[i], Indexed(path, i)),
              ValidateChildren(items, path, i + 1))

validateComponentConfig(cfg, path) ==
    IF NotAnObject(cfg)
    THEN Errors(<< ValidationError(path, "INVALID_CONFIG") >>)
    ELSE IF ReadThrows(cfg) THEN Thrown
    ELSE
      LET idErrors ==
            IF NotAString(Get(cfg, "id"))
            THEN << ValidationError(path \o ".id", "REQUIRED_FIELD") >>
            ELSE << >>
          propsErrors ==
            IF BadProps(Get(cfg, "props"))
            THEN << ValidationError(path \o ".props", "INVALID_TYPE") >>
            ELSE << >>
          children == Get(cfg, "children")
          childErrors ==
            IF children = Undefined THEN Errors(<< >>)
            ELSE IF ~IsArray(children)
                 THEN Errors(<< ValidationError(path \o ".children", "INVALID_TYPE") >>)
                 ELSE ValidateChildren(children.v, path \o ".children", 1)
      IN  Push(Errors(idErrors \o TypeErrors(Get(cfg, "type"), path) \o propsErrors),
               childErrors)

\* const validTypes = ['api', 'static', 'computed']
validTypes == {"api", "static", "computed"}

\* !ds.type || !validTypes.includes(ds.type)
BadSourceType(type) == Falsy(type) \/ ~(type.k = "string" /\ type.v \in validTypes)

validateDataSourceConfig(cfg, path) ==
    IF NotAnObject(cfg)
    THEN Errors(<< ValidationError(path, "INVALID_CONFIG") >>)
    ELSE IF ReadThrows(cfg) THEN Thrown
    ELSE
      Errors(
        (IF NotAString(Get(cfg, "id"))
         THEN << ValidationError(path \o ".id", "REQUIRED_FIELD") >> ELSE << >>)
        \o
        (IF BadSourceType(Get(cfg, "type"))
         THEN << ValidationError(path \o ".type", "INVALID_TYPE") >> ELSE << >>)
        \o
        (IF NotAnObject(Get(cfg, "config"))
         THEN << ValidationError(path \o ".config", "REQUIRED_FIELD") >> ELSE << >>))

RECURSIVE ValidateSources(_, _)
\* pageConfig.dataSource.forEach((ds, index) => errors.push(
\*     ...validateDataSourceConfig(ds, `dataSource[${index}]`))), from element i on
ValidateSources(items, i) ==
    IF i > Len(items) THEN Errors(<< >>)
    ELSE Push(validateDataSourceConfig(items[i], Indexed("dataSource", i)),
              ValidateSources(items, i + 1))

\* The result of validatePageConfig: [threw, valid, errors]
ValidationResult(r) ==
    [threw |-> r.threw, valid |-> ~r.threw /\ Len(r.errors) = 0, errors |-> r.errors]

validatePageConfig(cfg) ==
    IF NotAnObject(cfg)
    THEN ValidationResult(Errors(<< ValidationError("", "INVALID_CONFIG") >>))
    ELSE IF ReadThrows(cfg) THEN ValidationResult(Thrown)
    ELSE
      LET fieldErrors ==
            (IF NotAString(Get(cfg, "pageCode"))
             THEN << ValidationError("pageCode", "REQUIRED_FIELD") >> ELSE << >>)
            \o
            (IF NotAString(Get(cfg, "title"))
             THEN << ValidationError("title", "REQUIRED_FIELD") >> ELSE << >>)
          components == Get(cfg, "components")
          componentErrors ==
            IF ~IsArray(components)
            THEN Errors(<< ValidationError("components", "INVALID_TYPE") >>)
            ELSE ValidateChildren(components.v, "components", 1)
          dataSource == Get(cfg, "dataSource")
          sourceErrors ==
            IF dataSource = Undefined THEN Errors(<< >>)
            ELSE IF ~IsArray(dataSource)
                 THEN Errors(<< ValidationError("dataSource", "INVALID_TYPE") >>)
                 ELSE ValidateSources(dataSource.v, 1)
      IN  ValidationResult(Push(Push(Errors(fieldErrors), componentErrors), sourceErrors))

-----------------------------------------------------------------------------
(* Parser                                                                  *)

\* PermissionSet kept in a set that outlives the call: the permissions of
\* the earlier calls are still in it
PermissionSetKept(list) ==
    { Str(list[i]) : i \in DOMAIN list }
    \cup UNION { { Str(calls[n].userPermissions[i]) : i \in DOMAIN calls[n].userPermissions } :
                  n \in DOMAIN calls }

\* new Set(userPermissions): the elements of the list
PermissionSet(list) == { Str(list[i]) : i \in DOMAIN list }

\* ComputeVisible without the permission test
ComputeVisibleIgnoringPermission(cfg, permissions) ==
    Get(cfg, "visible") # Bool(FALSE)

\* ComputeVisible with `config.visible === true` in place of `!== false`
ComputeVisibleWhenTrue(cfg, permissions) ==
    LET permission == Get(cfg, "permission")
    IN  /\ Get(cfg, "visible") = Bool(TRUE)
        /\ ~(~Falsy(permission) /\ permission \notin permissions)

\* let visible = config.visible !== false
\* if (config.permission && !permissions.has(config.permission)) visible = false
ComputeVisible(cfg, permissions) ==
    LET permission == Get(cfg, "permission")
    IN  /\ Get(cfg, "visible") # Bool(FALSE)
        /\ ~(~Falsy(permission) /\ permission \notin permissions)

\* The ParsedComponent literal built by parseComponent
ParsedComponent(cfg, children, visible) ==
    [ k |-> "component",
      id |-> Get(cfg, "id"),
      type |-> Get(cfg, "type"),
      props |-> Spread(Get(cfg, "props")),
      children |-> children,
      visible |-> visible ]

RECURSIVE parseComponent(_, _)
RECURSIVE MapParse(_, _, _)

RECURSIVE MapParseDroppingHidden(_, _, _)
\* MapParse with the hidden components filtered out of the list
MapParseDroppingHidden(items, permissions, i) ==
    IF i > Len(items) THEN Arr(<< >>)
    ELSE LET head == parseComponent(items[i], permissions)
             tail == MapParseDroppingHidden(items, permissions, i + 1)
         IN  IF Threw(head) \/ Threw(tail) THEN TypeError
             ELSE IF head.visible THEN Arr(<< head >> \o tail.v) ELSE tail

\* items.map((child) => parseComponent(child, permissions)), from element i on:
\* the list of the parsed elements, or the TypeError one of them threw
MapParse(items, permissions, i) ==
    IF i > Len(items) THEN Arr(<< >>)
    ELSE LET head == parseComponent(items[i], permissions)
             tail == MapParse(items, permissions, i + 1)
         IN  IF Threw(head) \/ Threw(tail) THEN TypeError
             ELSE Arr(<< head >> \o tail.v)

\* config.children?.map(...): undefined for null and undefined, a TypeError
\* for any other value without a map method
ParseChildren(children, permissions) ==
    IF children.k \in {"undefined", "null"} THEN Undefined
    ELSE IF ~IsArray(children) THEN TypeError
    ELSE MapParse(children.v, permissions, 1)

\* The children list with every element marked hidden
HideAll(children) ==
    IF children.k = "array"
    THEN Arr([i \in DOMAIN children.v |-> [children.v[i] EXCEPT !.visible = FALSE]])
    ELSE children

\* parseComponent with the children of a hidden component hidden with it
parseComponentInheriting(cfg, permissions) ==
    IF ReadThrows(cfg) THEN TypeError
    ELSE LET children == ParseChildren(Get(cfg, "children"), permissions)
             visible == ComputeVisible(cfg, permissions)
         IN  IF Threw(children) THEN TypeError
             ELSE ParsedComponent(cfg, IF visible THEN children ELSE HideAll(children),
                                  visible)

parseComponent(cfg, permissions) ==
    IF ReadThrows(cfg) THEN TypeError
    ELSE LET children == ParseChildren(Get(cfg, "children"), permissions)
         IN  IF Threw(children) THEN TypeError
             ELSE ParsedComponent(cfg, children, ComputeVisible(cfg, permissions))

\* A Map is modelled as a function from its keys, in the field v.
EmptyMap == [k |-> "map", v |-> [key \in {} |-> Null]]
MapKeys(map) == DOMAIN map.v
MapHas(map, key) == key \in DOMAIN map.v
MapGet(map, key) == IF key \in DOMAIN map.v THEN map.v[key] ELSE Undefined
MapSet(map, key, value) ==
    [k |-> "map",
     v |-> [x \in DOMAIN map.v \cup {key} |-> IF x = key THEN value ELSE map.v[x]]]

\* InitialSourceValue with the placeholder left undefined
InitialSourceValueUndefined(ds) ==
    IF Get(ds, "type") = Str("static") /\ HasProp(Get(ds, "config"), "data")
    THEN Get(Get(ds, "config"), "data")
    ELSE Undefined

\* The value parsePageConfig stores for one data source:
\* ds.type === 'static' && 'data' in ds.config ? ds.config.data : null
InitialSourceValue(ds) ==
    IF Get(ds, "type") = Str("static") /\ HasProp(Get(ds, "config"), "data")
    THEN Get(Get(ds, "config"), "data")
    ELSE Null

\* `'data' in ds.config` throws for a ds.config that is no object
InThrows(ds) ==
    Get(ds, "type") = Str("static") /\ TypeOf(Get(ds, "config")) # "object"

RECURSIVE InitSources(_, _, _)
\* config.dataSource.forEach((ds) => dataSources.set(ds.id, ...)), from
\* element i on, starting from the map built so far
InitSources(items, i, map) ==
    IF i > Len(items) THEN map
    ELSE IF ReadThrows(items[i]) \/ InThrows(items[i]) THEN TypeError
    ELSE InitSources(items, i + 1,
                     MapSet(map, Get(items[i], "id"), InitialSourceValue(items[i])))

\* if (config.dataSource) { config.dataSource.forEach(...) }
ParseSources(dataSource) ==
    IF Falsy(dataSource) THEN EmptyMap
    ELSE IF ~IsArray(dataSource) THEN TypeError
    ELSE InitSources(dataSource.v, 1, EmptyMap)

\* The ParsedPage literal returned by parsePageConfig
ParsedPage(cfg, components, sourceMap) ==
    [ k |-> "page",
      pageCode |-> Get(cfg, "pageCode"),
      title |-> Get(cfg, "title"),
      components |-> components.v,
      dataSources |-> sourceMap ]

\* The components of a configuration that passed the validation are mapped;
\* config.components.map throws for a value that is no array.
ParseComponents(components, permissions) ==
    IF ~IsArray(components) THEN TypeError
    ELSE MapParse(components.v, permissions, 1)

\* parsePageConfig reporting only the first validation error
parsePageConfigFirstError(cfg, permissionList) ==
    LET result == validatePageConfig(cfg)
    IN  IF result.threw THEN TypeError
        ELSE IF ~result.valid THEN ParseError("", [errors |-> << result.errors[1] >>])
        ELSE LET permissions == PermissionSet(permissionList)
                 components == ParseComponents(Get(cfg, "components"), permissions)
                 sourceMap == ParseSources(Get(cfg, "dataSource"))
             IN  IF Threw(components) \/ Threw(sourceMap) THEN TypeError
                 ELSE ParsedPage(cfg, components, sourceMap)

parsePageConfig(cfg, permissionList) ==
    LET result == validatePageConfig(cfg)
    IN  IF result.threw THEN TypeError
        ELSE IF ~result.valid THEN ParseError("", [errors |-> result.errors])
        ELSE LET permissions == PermissionSet(permissionList)
                 components == ParseComponents(Get(cfg, "components"), permissions)
                 sourceMap == ParseSources(Get(cfg, "dataSource"))
             IN  IF Threw(components) \/ Threw(sourceMap) THEN TypeError
                 ELSE ParsedPage(cfg, components, sourceMap)

-----------------------------------------------------------------------------
(* The inputs: configuration documents as a caller can pass them           *)

MaxNodes == 3      \* components of one configuration, all depths together
MaxSources == 2    \* data sources of one configuration

\* Component literals without children: the properties of one component.
PlainComponent ==
    [id |-> Str("a"), type |-> Str("MButton"), props |-> Obj(NoProps)]
GatedComponent ==
    [id |-> Str("b"), type |-> Str("MCard"), props |-> Obj([text |-> Str("Go")]),
     permission |-> Str("p1")]
ShownGatedComponent ==
    [id |-> Str("c"), type |-> Str("MInput"), props |-> Obj(NoProps),
     permission |-> Str("p2"), visible |-> Bool(TRUE)]
HiddenComponent ==
    [id |-> Str("d"), type |-> Str("MText"), props |-> Obj(NoProps),
     permission |-> Str("p1"), visible |-> Bool(FALSE)]
LooseComponent ==
    [id |-> Str("e"), type |-> Str("MContainer"), permission |-> Str(""),
     visible |-> Str("form.show")]

NoIdComponent ==
    [type |-> Str("Bogus"), props |-> Obj(NoProps)]
EmptyTypeComponent ==
    [id |-> Str(""), type |-> Str(""), props |-> Num(7)]
NullPropsComponent ==
    [id |-> Str("f"), type |-> Str("MForm"), props |-> Null]

VisibilityBases ==
    { PlainComponent, GatedComponent, ShownGatedComponent, HiddenComponent,
      LooseComponent }
MalformedBases ==
    { PlainComponent, NoIdComponent, EmptyTypeComponent, NullPropsComponent }

WithChildren(base, children) == Obj(base @@ ("children" :> children))

VisibilityLeaves ==
    { Obj(b) : b \in VisibilityBases } \cup { WithChildren(PlainComponent, Arr(<< >>)) }
MalformedLeaves ==
    { Obj(b) : b \in MalformedBases }
    \cup { Null, Str("x"),
           WithChildren(PlainComponent, Str("x")),
           WithChildren(NoIdComponent, Null) }

RECURSIVE Forests(_, _, _)
\* The component lists of exactly n components (descendants counted), inner
\* components drawn from bases and childless ones from leaves.
Forests(bases, leaves, n) ==
    IF n = 0 THEN { << >> }
    ELSE UNION {
           { << t >> \o rest :
               t \in (IF first = 1 THEN leaves
                      ELSE { WithChildren(b, Arr(f)) :
                               b \in bases, f \in Forests(bases, leaves, first - 1) }),
               rest \in Forests(bases, leaves, n - first) } :
           first \in 1..n }

ForestsUpTo(bases, leaves, n) == UNION { Forests(bases, leaves, m) : m \in 0..n }

PageOf(components) ==
    Obj([pageCode |-> Str("demo"), title |-> Str("Demo"), components |-> Arr(components)])

VisibilityConfigs ==
    { PageOf(f) : f \in ForestsUpTo(VisibilityBases, VisibilityLeaves, MaxNodes) }
MalformedConfigs ==
    { PageOf(f) : f \in ForestsUpTo(MalformedBases, MalformedLeaves, MaxNodes) }

\* Data source literals.
StaticX ==
    Obj([id |-> Str("x"), type |-> Str("static"),
         config |-> Obj([data |-> Arr(<< Num(1), Num(2), Num(3) >>)])])
ApiX ==
    Obj([id |-> Str("x"), type |-> Str("api"),
         config |-> Obj([url |-> Str("/api/x"), method |-> Str("GET")])])
StaticNoDataY ==
    Obj([id |-> Str("y"), type |-> Str("static"), config |-> Obj(NoProps)])
ComputedY ==
    Obj([id |-> Str("y"), type |-> Str("computed"),
         config |-> Obj([expression |-> Str("x.length"), dependencies |-> Arr(<< Str("x") >>)])])
StaticArrayConfigZ ==
    Obj([id |-> Str("z"), type |-> Str("static"), config |-> Arr(<< >>)])
NoIdSource ==
    Obj([type |-> Str("api"), config |-> Obj(NoProps)])
BadTypeSource ==
    Obj([id |-> Str("z"), type |-> Str("rest"), config |-> Null])

SourceLiterals ==
    { StaticX, ApiX, StaticNoDataY, ComputedY, StaticArrayConfigZ,
      NoIdSource, BadTypeSource, Null }

RECURSIVE SeqsUpTo(_, _)
\* The lists of at most n elements of S
SeqsUpTo(S, n) ==
    IF n = 0 THEN { << >> }
    ELSE { << >> } \cup { << x >> \o rest : x \in S, rest \in SeqsUpTo(S, n - 1) }

Optional(name, values) == { NoProps } \cup { name :> x : x \in values }

\* Page documents whose own fields and data sources vary.
PageLevelConfigs ==
    { Obj(a @@ b @@ c @@ d) :
        a \in Optional("pageCode", { Str("demo"), Str(""), Num(1) }),
        b \in Optional("title", { Str("Demo") }),
        c \in Optional("components",
                       { Arr(<< >>), Arr(<< Obj(PlainComponent) >>),
                         Arr(<< Obj(NoIdComponent) >>), Str("not-an-array") }),
        d \in Optional("dataSource",
                       { Null, Str("x") }
                       \cup { Arr(l) : l \in SeqsUpTo(SourceLiterals, MaxSources) }) }
    \cup { Undefined, Null, Str("demo"), Num(0), Bool(TRUE), Arr(<< >>) }

\* userPermissions lists
PermissionLists ==
    { << >>, << "p1" >>, << "p2" >>, << "p1", "p2" >>, << "p2", "p2" >> }

-----------------------------------------------------------------------------
(* The callers of the validator and of the parser                          *)

None == [k |-> "none"]

MaxRuns == 2       \* calls of initPage in the life of one page

Runs == 1..MaxRuns

\* A call of initPage that has not been made yet.
IdleRun ==
    [pc |-> "idle", code |-> Str(""), failure |-> Null, sources |-> << >>, status |-> << >>]

\* The page as its setup leaves it: the refs at their initial values, the
\* props at their defaults.
DefaultProps == [pageCode |-> Str(""), config |-> Undefined]
Unmounted ==
    /\ mounted = FALSE
    /\ loading = FALSE
    /\ error = Null
    /\ pageConfig = Null
    /\ parsedPage = Null
    /\ dataSources = EmptyMap
    /\ runs = [r \in Runs |-> IdleRun]

\* The parts of the program that a specification leaves at rest.
ExceptionUnused == exceptions = << >> /\ handleForm = None /\ submitting = FALSE /\ errorMessage = None /\ handling = 0
ReportUnused == reportForm = None /\ lastUpdate = None
LogUnused == logCache = << >> /\ storedLogs = None /\ flushes = << >> /\ nextEntry = 0 /\ uploadCount = << >> /\ deleted = {}
AccessUnused == cachedPermissions = << >> /\ access = None
StorageUnused == storedText = None /\ original = None /\ expiry = None /\ writtenAt = 0 /\ dateNow = 0 /\ readBack = None /\ readAt = 0
SyncUnused == state = None /\ storedQueue = None /\ initialised = FALSE /\ checking = FALSE /\ passes = << >> /\ nextId = 0 /\ batch = << >> /\ delivered = {} /\ removed = {} /\ evicted = {} /\ owed = {}
TokenUnused == storedUser = None /\ refreshState = None /\ inFlight = {} /\ issued = 0 /\ callers = << >>
RetryUnused == retry = None
CallsUnused == calls = << >>
BindingsUnused == bindings = None
ParserUnused ==
    /\ config = Undefined
    /\ userPermissions = << >>
    /\ pc = "input"
    /\ validation = None
    /\ parseResult = None
HostUnused == props = DefaultProps /\ Unmounted
RenderUnused == tree = None /\ vnodes = None /\ hostNodes = None

Init ==
    /\ ExceptionUnused
    /\ ReportUnused
    /\ LogUnused
    /\ AccessUnused
    /\ StorageUnused
    /\ SyncUnused
    /\ TokenUnused
    /\ RetryUnused
    /\ CallsUnused
    /\ BindingsUnused
    /\ HostUnused
    /\ registry = {}
    /\ RenderUnused
    /\ pc = "input"
    /\ validation = None
    /\ parseResult = None
    /\ \/ config \in VisibilityConfigs /\ userPermissions \in PermissionLists
       \/ config \in MalformedConfigs \cup PageLevelConfigs /\ userPermissions = << >>

\* const result = validatePageConfig(config)
Validate ==
    /\ pc = "input"
    /\ validation' = validatePageConfig(config)
    /\ pc' = "validated"
    /\ UNCHANGED <<config, userPermissions, parseResult, otherThanParser>>

\* parsePageConfig(config, userPermissions), its exception caught
Parse ==
    /\ pc = "validated"
    /\ parseResult' = parsePageConfig(config, userPermissions)
    /\ pc' = "parsed"
    /\ UNCHANGED <<config, userPermissions, validation, otherThanParser>>

Next == Validate \/ Parse

Spec == Init /\ [][Next]_vars

-----------------------------------------------------------------------------
(* Walking a configuration and its parsed tree                             *)

\* The child components of a configuration node: the elements of its children
\* array, none when it has no such array.
ChildrenOf(node) ==
    IF IsArray(Get(node, "children")) THEN Get(node, "children").v ELSE << >>

RECURSIVE NodePaths(_)
\* The positions of the components of a list at every depth: a position is the
\* list of the 1-based indices that lead to the component.
NodePaths(items) ==
    UNION { { << i >> } \cup { << i >> \o p : p \in NodePaths(ChildrenOf(items[i])) } :
            i \in DOMAIN items }

RECURSIVE ConfigAt(_, _)
ConfigAt(items, p) ==
    IF Len(p) = 1 THEN items[p[1]]
    ELSE ConfigAt(ChildrenOf(items[p[1]]), Tail(p))

RECURSIVE ParsedPaths(_)
\* The positions of the components of a parsed list at every depth
ParsedPaths(items) ==
    UNION { { << i >> }
            \cup { << i >> \o p :
                     p \in ParsedPaths(IF items[i].children.k = "array"
                                       THEN items[i].children.v ELSE << >>) } :
            i \in DOMAIN items }

RECURSIVE ParsedAt(_, _)
ParsedAt(items, p) ==
    IF Len(p) = 1 THEN items[p[1]]
    ELSE ParsedAt(items[p[1]].children.v, Tail(p))

\* The top-level components of the configuration under parse: the elements of
\* config.components when it is an array
Components ==
    IF config.k = "object" /\ IsArray(Get(config, "components"))
    THEN Get(config, "components").v ELSE << >>

\* The data sources the configuration declares: the elements of
\* config.dataSource when it is an array
Sources ==
    IF config.k = "object" /\ IsArray(Get(config, "dataSource"))
    THEN Get(config, "dataSource").v ELSE << >>

RECURSIVE PathString(_)
\* The validator's path of the component at a position:
\* components[i].children[j]...
PathString(p) ==
    IF Len(p) = 1 THEN Indexed("components", p[1])
    ELSE Indexed(PathString(SubSeq(p, 1, Len(p) - 1)) \o ".children", p[Len(p)])

Parsed == pc = "parsed" /\ parseResult.k = "page"

-----------------------------------------------------------------------------
(* C1: for a configuration the validator accepts, the parsed tree has the  *)
(* shape of the input: the same number of components at every level, in    *)
(* the same order, each with the id and the type of the input component,   *)
(* and a children list exactly where the input has one; no component is    *)
(* dropped or moved because it is hidden.                                  *)

RECURSIVE SameShape(_, _)
SameShape(input, output) ==
    /\ Len(output) = Len(input)
    /\ \A i \in DOMAIN input :
         /\ output[i].id = Get(input[i], "id")
         /\ output[i].type = Get(input[i], "type")
         /\ IF Get(input[i], "children") = Undefined
            THEN output[i].children = Undefined
            ELSE /\ output[i].children.k = "array"
                 /\ SameShape(Get(input[i], "children").v, output[i].children.v)

C1_StructurePreserved ==
    (pc = "parsed" /\ validation.valid) =>
        /\ parseResult.k = "page"
        /\ SameShape(Components, parseResult.components)

\* A parsed tree in which a hidden child component is followed by a sibling.
C1_Witness ==
    /\ Parsed
    /\ \E p \in ParsedPaths(parseResult.components) :
         /\ Len(p) >= 2
         /\ ~ParsedAt(parseResult.components, p).visible
         /\ (SubSeq(p, 1, Len(p) - 1) \o << p[Len(p)] + 1 >>)
              \in ParsedPaths(parseResult.components)

-----------------------------------------------------------------------------
(* The permission a component declares, and the caller's permission set    *)

Declares(node, name) == Get(node, name) # Undefined

Granted == PermissionSet(userPermissions)

\* The positions of the components of the configuration under parse
Positions == NodePaths(Components)

InputAt(p) == ConfigAt(Components, p)
OutputAt(p) == ParsedAt(parseResult.components, p)

(* C2 as stated: a component at any depth that declares a permission and   *)
(* does not set visible to false is visible in the parsed tree if and only *)
(* if the permission is a member of userPermissions.                       *)
C2_PermissionGatesVisibility ==
    Parsed =>
        \A p \in Positions :
            (Declares(InputAt(p), "permission") /\ Get(InputAt(p), "visible") # Bool(FALSE))
                => (OutputAt(p).visible <=> Get(InputAt(p), "permission") \in Granted)

(* C2 as amended: a component at any depth that declares a non-empty       *)
(* permission and does not set visible to false is visible if and only if  *)
(* the permission is a member of userPermissions; a component whose        *)
(* permission is the empty string is not gated at all.                     *)
C2_NonEmptyPermissionGatesVisibility ==
    Parsed =>
        \A p \in Positions :
            (Declares(InputAt(p), "permission") /\ Get(InputAt(p), "visible") # Bool(FALSE))
                => IF Get(InputAt(p), "permission") = Str("")
                   THEN OutputAt(p).visible
                   ELSE OutputAt(p).visible <=> Get(InputAt(p), "permission") \in Granted

\* A parse in which one nested gated component is shown and another gated
\* component is hidden, by the permissions alone.
C2_Witness ==
    /\ Parsed
    /\ \E p, q \in Positions :
         /\ Len(p) >= 2
         /\ Get(InputAt(p), "permission") \in Granted
         /\ OutputAt(p).visible
         /\ Get(InputAt(q), "permission") \notin (Granted \cup {Undefined, Str("")})
         /\ Get(InputAt(q), "visible") # Bool(FALSE)
         /\ ~OutputAt(q).visible

-----------------------------------------------------------------------------
(* C3: at every depth the parsed visible is a boolean, equal to            *)
(*   (config.visible is not the literal false) and                         *)
(*   (no permission declared, or an empty one, or one in userPermissions); *)
(* visible = false in the configuration hides the component whatever the   *)
(* permissions are, and a tree that declares neither permission nor        *)
(* visible anywhere is visible everywhere.                                 *)

PermissionPasses(node) ==
    \/ ~Declares(node, "permission")
    \/ Get(node, "permission") = Str("")
    \/ Get(node, "permission") \in Granted

C3_VisibleIsFlagAndPermission ==
    Parsed =>
        /\ \A p \in Positions :
             /\ OutputAt(p).visible \in BOOLEAN
             /\ OutputAt(p).visible
                  = (Get(InputAt(p), "visible") # Bool(FALSE) /\ PermissionPasses(InputAt(p)))
             /\ Get(InputAt(p), "visible") = Bool(FALSE) => ~OutputAt(p).visible
        /\ (\A p \in Positions :
               ~Declares(InputAt(p), "permission") /\ ~Declares(InputAt(p), "visible"))
             => \A p \in Positions : OutputAt(p).visible

\* A parse with a nested component that sets visible to false and holds the
\* permission it declares, beside a component that declares neither field.
C3_Witness ==
    /\ Parsed
    /\ \E p, q \in Positions :
         /\ Len(p) >= 2
         /\ Get(InputAt(p), "visible") = Bool(FALSE)
         /\ Get(InputAt(p), "permission") \in Granted
         /\ ~OutputAt(p).visible
         /\ ~Declares(InputAt(q), "permission") /\ ~Declares(InputAt(q), "visible")
         /\ OutputAt(q).visible

-----------------------------------------------------------------------------
(* C4: the visible of a child depends on the child alone: it is what the   *)
(* same child gets when it is parsed as the only top-level component of a  *)
(* page, with no parent at all, for the same permissions; so a child that  *)
(* passes its own check under a hidden parent is parsed visible.           *)

ParsedAlone(node) == parsePageConfig(PageOf(<< node >>), userPermissions)

C4_ChildVisibilityIgnoresParent ==
    Parsed =>
        \A p \in Positions :
            Len(p) >= 2 =>
                /\ ParsedAlone(InputAt(p)).k = "page"
                /\ OutputAt(p).visible = ParsedAlone(InputAt(p)).components[1].visible

\* A child that declares a permission the caller holds, parsed visible under a
\* parent that is hidden.
C4_Witness ==
    /\ Parsed
    /\ \E p \in Positions :
         /\ Len(p) >= 2
         /\ ~OutputAt(SubSeq(p, 1, Len(p) - 1)).visible
         /\ Get(InputAt(p), "permission") \in Granted
         /\ OutputAt(p).visible

-----------------------------------------------------------------------------
(* C5: parsePageConfig throws a ParseError that carries exactly the error  *)
(* list of validatePageConfig(config) whenever that list is not empty, and *)
(* returns a ParsedPage without throwing whenever it is empty.             *)

C5_ParseIsAllOrNothing ==
    pc = "parsed" =>
        IF Len(validation.errors) > 0
        THEN /\ parseResult.k = "throw"
             /\ parseResult.name = "ParseError"
             /\ parseResult.details.errors = validation.errors
        ELSE parseResult.k = "page"

\* A configuration whose only error is in a component two levels down,
\* refused whole.
C5_Witness ==
    /\ pc = "parsed"
    /\ parseResult.k = "throw"
    /\ validation.errors
         = << ValidationError("components[0].children[0].children[0]", "INVALID_CONFIG") >>

-----------------------------------------------------------------------------
(* What the declared types ask of a configuration (types/device.ts), field *)
(* by field: the paths of the fields that break them.  An object is a      *)
(* non-null object here (an array counts as one, as for typeof).           *)

IsObject(x) == x.k \in {"object", "array"}
NonEmptyString(x) == x.k = "string" /\ x.v # ""

RECURSIVE ComponentOffences(_, _)
ComponentOffences(node, path) ==
    IF ~IsObject(node) THEN { path }
    ELSE (IF NonEmptyString(Get(node, "id")) THEN {} ELSE { path \o ".id" })
         \cup (IF TypeSetHas(Get(node, "type")) THEN {} ELSE { path \o ".type" })
         \cup (IF Declares(node, "props") /\ ~IsObject(Get(node, "props"))
               THEN { path \o ".props" } ELSE {})
         \cup (IF ~Declares(node, "children") THEN {}
               ELSE IF ~IsArray(Get(node, "children")) THEN { path \o ".children" }
               ELSE UNION { ComponentOffences(ChildrenOf(node)[i],
                                              Indexed(path \o ".children", i)) :
                            i \in DOMAIN ChildrenOf(node) })

SourceOffences(ds, path) ==
    IF ~IsObject(ds) THEN { path }
    ELSE (IF NonEmptyString(Get(ds, "id")) THEN {} ELSE { path \o ".id" })
         \cup (IF Get(ds, "type") \in { Str(t) : t \in validTypes }
               THEN {} ELSE { path \o ".type" })
         \cup (IF IsObject(Get(ds, "config")) THEN {} ELSE { path \o ".config" })

Offences(cfg) ==
    IF ~IsObject(cfg) THEN { "" }
    ELSE (IF NonEmptyString(Get(cfg, "pageCode")) THEN {} ELSE { "pageCode" })
         \cup (IF NonEmptyString(Get(cfg, "title")) THEN {} ELSE { "title" })
         \cup (IF ~IsArray(Get(cfg, "components")) THEN { "components" }
               ELSE UNION { ComponentOffences(Get(cfg, "components").v[i],
                                              Indexed("components", i)) :
                            i \in DOMAIN Get(cfg, "components").v })
         \cup (IF ~Declares(cfg, "dataSource") THEN {}
               ELSE IF ~IsArray(Get(cfg, "dataSource")) THEN { "dataSource" }
               ELSE UNION { SourceOffences(Get(cfg, "dataSource").v[i],
                                           Indexed("dataSource", i)) :
                            i \in DOMAIN Get(cfg, "dataSource").v })

Validated == pc # "input"

\* The validator reported an error with this path and code
Reported(path, code) ==
    \E i \in DOMAIN validation.errors : validation.errors[i] = ValidationError(path, code)

(* C6: validatePageConfig never throws, whatever it is given, and whenever *)
(* a field of the input breaks its declared type or is missing, it returns *)
(* valid = false with at least one error whose path is that of an          *)
(* offending field.                                                        *)
C6_ValidationTotality ==
    Validated =>
        /\ ~validation.threw
        /\ Offences(config) # {} =>
             /\ ~validation.valid
             /\ \E i \in DOMAIN validation.errors :
                  validation.errors[i].path \in Offences(config)

-----------------------------------------------------------------------------
(* C7 as stated: for every string t that is the type of a component at     *)
(* path p, UNSUPPORTED_TYPE is reported at p.type exactly when t is not in *)
(* the registry, isComponentTypeSupported(t) is then false, and            *)
(* REQUIRED_FIELD and UNSUPPORTED_TYPE are never both reported at p.type.  *)

\* The positions of the components whose fields the validator reads
CheckedPositions == { p \in Positions : IsObject(InputAt(p)) }

TypeAt(p) == Get(InputAt(p), "type")
TypePath(p) == PathString(p) \o ".type"

C7_UnsupportedTypeRejected ==
    Validated =>
        \A p \in CheckedPositions :
            TypeAt(p).k = "string" =>
                /\ Reported(TypePath(p), "UNSUPPORTED_TYPE")
                     <=> TypeAt(p).v \notin componentTypeSet
                /\ Reported(TypePath(p), "UNSUPPORTED_TYPE")
                     => ~isComponentTypeSupported(TypeAt(p).v)
                /\ ~(Reported(TypePath(p), "REQUIRED_FIELD")
                     /\ Reported(TypePath(p), "UNSUPPORTED_TYPE"))

(* C7 as amended: the same for every non-empty string t; the empty string  *)
(* is reported as REQUIRED_FIELD at p.type and not as UNSUPPORTED_TYPE.    *)
C7_NonEmptyUnsupportedTypeRejected ==
    Validated =>
        \A p \in CheckedPositions :
            TypeAt(p).k = "string" =>
                /\ Reported(TypePath(p), "UNSUPPORTED_TYPE")
                     <=> (TypeAt(p).v # "" /\ TypeAt(p).v \notin componentTypeSet)
                /\ Reported(TypePath(p), "UNSUPPORTED_TYPE")
                     => ~isComponentTypeSupported(TypeAt(p).v)
                /\ Reported(TypePath(p), "REQUIRED_FIELD") <=> TypeAt(p).v = ""
                /\ ~(Reported(TypePath(p), "REQUIRED_FIELD")
                     /\ Reported(TypePath(p), "UNSUPPORTED_TYPE"))

\* A nested component of an unregistered type, reported at its own path,
\* under a parent of a registered type that is not reported.
C7_Witness ==
    /\ Validated
    /\ \E p \in CheckedPositions :
         /\ Len(p) >= 2
         /\ TypeAt(p) = Str("Bogus")
         /\ Reported(TypePath(p), "UNSUPPORTED_TYPE")
         /\ isComponentTypeSupported(TypeAt(SubSeq(p, 1, Len(p) - 1)).v)
         /\ ~Reported(TypePath(SubSeq(p, 1, Len(p) - 1)), "UNSUPPORTED_TYPE")

-----------------------------------------------------------------------------
(* C8: when components is an array the error list holds, for every         *)
(* component at every depth, exactly the errors of that component's own    *)
(* fields under its full path, whatever errors its siblings, ancestors and *)
(* descendants have, and likewise for the page's own fields and for every  *)
(* data source; a node that is no object gets the single error             *)
(* INVALID_CONFIG, a children value that is no array the single error      *)
(* INVALID_TYPE, and the list holds nothing else.                          *)

\* The errors reported with one of these paths, in the order reported
ErrorsAt(paths) == SelectSeq(validation.errors, LAMBDA e : e.path \in paths)

OwnPaths(path) ==
    { path, path \o ".id", path \o ".type", path \o ".props", path \o ".children" }
SourcePaths(path) ==
    { path, path \o ".id", path \o ".type", path \o ".config" }

\* A component without its children array
Childless(node) ==
    IF node.k = "object" /\ IsArray(Get(node, "children"))
    THEN Obj([name \in DOMAIN node.v \ {"children"} |-> node.v[name]])
    ELSE node

C8_ErrorsAccumulate ==
    (Validated /\ config.k = "object" /\ IsArray(Get(config, "components"))) =>
        /\ \A p \in Positions :
             /\ ErrorsAt(OwnPaths(PathString(p)))
                  = validateComponentConfig(Childless(InputAt(p)), PathString(p)).errors
             /\ ~IsObject(InputAt(p)) =>
                  ErrorsAt(OwnPaths(PathString(p)))
                    = << ValidationError(PathString(p), "INVALID_CONFIG") >>
             /\ (IsObject(InputAt(p)) /\ Declares(InputAt(p), "children")
                   /\ ~IsArray(Get(InputAt(p), "children"))) =>
                  ErrorsAt({ PathString(p) \o ".children" })
                    = << ValidationError(PathString(p) \o ".children", "INVALID_TYPE") >>
        /\ \A i \in DOMAIN Sources :
             ErrorsAt(SourcePaths(Indexed("dataSource", i)))
               = validateDataSourceConfig(Sources[i], Indexed("dataSource", i)).errors
        /\ Reported("pageCode", "REQUIRED_FIELD") <=> ~NonEmptyString(Get(config, "pageCode"))
        /\ Reported("title", "REQUIRED_FIELD") <=> ~NonEmptyString(Get(config, "title"))
        /\ \A i \in DOMAIN validation.errors :
             validation.errors[i].path
               \in { "pageCode", "title", "dataSource" }
                   \cup UNION { OwnPaths(PathString(p)) : p \in Positions }
                   \cup UNION { SourcePaths(Indexed("dataSource", i2)) : i2 \in DOMAIN Sources }

\* Errors of a component, of its child and of its sibling, all reported.
C8_Witness ==
    /\ Validated
    /\ Reported("components[0].id", "REQUIRED_FIELD")
    /\ Reported("components[0].children[0].type", "REQUIRED_FIELD")
    /\ Reported("components[1]", "INVALID_CONFIG")

-----------------------------------------------------------------------------
(* C9 as stated: after a successful parse dataSources has exactly the ids  *)
(* the configuration declares as keys; the entry of a static source with   *)
(* config.data = X is X and the entry of an api or computed source is null.*)

SourceId(i) == Get(Sources[i], "id")
IsStaticWithData(ds) == Get(ds, "type") = Str("static") /\ HasProp(Get(ds, "config"), "data")
IsPlaceholder(ds) == Get(ds, "type") \in { Str("api"), Str("computed") }

IsLastWithId(i) == \A j \in DOMAIN Sources : SourceId(j) = SourceId(i) => j <= i

-----------------------------------------------------------------------------
(* pages/dynamic/index.vue: the page that loads a configuration, parses it  *)
(* and fetches its data sources                                             *)

\* new Error(message); the messages are named here by what they say.
Error(message) == [k |-> "throw", name |-> "Error", message |-> message]

\* The data sources of the pages the server knows.
StaticY ==
    Obj([id |-> Str("y"), type |-> Str("static"), config |-> Obj([data |-> Str("y0")])])
ApiXOfB ==
    Obj([id |-> Str("x"), type |-> Str("api"),
         config |-> Obj([url |-> Str("/api/b/x"), method |-> Str("GET")])])
ManualApiZ ==
    Obj([id |-> Str("z"), type |-> Str("api"), autoLoad |-> Bool(FALSE),
         config |-> Obj([url |-> Str("/api/z"), method |-> Str("POST")])])

\* What GET /api/pages/<pageCode> answers with a 200.
ServerPages ==
    [code \in {"A", "B", "bad"} |->
       CASE code = "A" ->
              Obj([pageCode |-> Str("A"), title |-> Str("Page A"),
                   components |-> Arr(<< Obj(PlainComponent), Obj(GatedComponent) >>),
                   dataSource |-> Arr(<< ApiX, StaticY >>)])
         [] code = "B" ->
              Obj([pageCode |-> Str("B"), title |-> Str("Page B"),
                   permission |-> Str("p1"),
                   components |-> Arr(<< Obj(PlainComponent) >>),
                   dataSource |-> Arr(<< ApiXOfB, ManualApiZ, ComputedY >>)])
         [] OTHER ->
              Obj([pageCode |-> Str("bad"), title |-> Str("Bad"),
                   components |-> Str("not-an-array")])]

PageCodes == { Str(code) : code \in DOMAIN ServerPages }

\* The positions a source can have among the auto-load sources of a page.
FetchIndexes == 1..Len(Get(ServerPages["B"], "dataSource").v)

\* A configuration handed over in props.config; it declares no data source.
DirectConfig ==
    Obj([pageCode |-> Str("D"), title |-> Str("Direct"),
         components |-> Arr(<< Obj(HiddenComponent) >>)])

\* res.data of the request that call r of initPage made for its i-th source
FetchedData(r, i) == Obj([request |-> Num(r), source |-> Num(i)])

\* The call of initPage that is made next, and whether one is left.
HasFreeRun == \E r \in Runs : runs[r].pc = "idle"
FreeRun == CHOOSE r \in Runs : runs[r].pc = "idle" /\ \A q \in 1..(r - 1) : runs[q].pc # "idle"

\* ds.autoLoad !== false
AutoLoad(ds) == Get(ds, "autoLoad") # Bool(FALSE)

\* loadDataSource(config) answers from the network for an 'api' source and
\* at once for every other type.
IsApi(ds) == Get(ds, "type") = Str("api")

\* Every promise of a call's Promise.all has settled.
AllSettled(r) == \A i \in DOMAIN runs[r].status : runs[r].status[i] # "pending"

\* A continuation of call r is queued as a microtask: it runs before any
\* answer of the network is delivered and before any later task starts.
MicrotaskQueued(r) ==
    \/ runs[r].pc \in {"configGiven", "configRefused", "configLoaded", "configFailed"}
    \/ /\ runs[r].pc = "awaitSources"
       /\ \/ AllSettled(r)
          \/ \E i \in DOMAIN runs[r].status :
                runs[r].status[i] = "pending" /\ ~IsApi(runs[r].sources[i])
NetworkDelivers == \A r \in Runs : ~MicrotaskQueued(r)

\* initPage can be called: by a task of its own, or in the task that has
\* just called it (loadPageConfig of the earlier call returned or threw
\* without a request).
TaskRuns ==
    \A r \in Runs : MicrotaskQueued(r) => runs[r].pc \in {"configGiven", "configRefused"}

\* The names initComponents() registers: registerComponents({ MButton, ... })
initComponents == { "MButton", "MInput", "MCard", "MList", "MScanner", "MTable", "MForm" }

\* initPage() with the props p, up to its first await: loading and error are
\* reset, the components are registered and loadPageConfig runs up to its
\* own first await.
initPage(p) ==
    /\ HasFreeRun
    /\ TaskRuns
    /\ loading' = TRUE
    /\ error' = Null
    /\ registry' = registry \cup initComponents
    /\ IF ~Falsy(p.config)
       THEN /\ pageConfig' = p.config
            /\ runs' = [runs EXCEPT ![FreeRun] = [IdleRun EXCEPT !.pc = "configGiven"]]
       ELSE IF Falsy(p.pageCode)
       THEN /\ runs' = [runs EXCEPT ![FreeRun] =
                          [IdleRun EXCEPT !.pc = "configRefused",
                                          !.failure = Error("page code is empty")]]
            /\ UNCHANGED pageConfig
       ELSE /\ runs' = [runs EXCEPT ![FreeRun] =
                          [IdleRun EXCEPT !.pc = "fetchingConfig", !.code = p.pageCode]]
            /\ UNCHANGED pageConfig
    /\ UNCHANGED <<parsedPage, dataSources>>

\* onMounted: urlPageCode says whether the page was opened with a pageCode
\* in its URL.
Mount(urlPageCode) ==
    /\ ~mounted
    /\ mounted' = TRUE
    /\ IF \/ urlPageCode /\ Falsy(props.pageCode) /\ Falsy(props.config)
          \/ ~Falsy(props.pageCode)
          \/ ~Falsy(props.config)
       THEN initPage(props)
       ELSE UNCHANGED <<loading, error, pageConfig, parsedPage, dataSources, runs, registry>>
    /\ UNCHANGED <<props, otherThanHost>>

\* The parent changes props.pageCode; watch(() => props.pageCode, ...)
ChangePageCode(code) ==
    /\ mounted
    /\ code # props.pageCode
    /\ props' = [props EXCEPT !.pageCode = code]
    /\ IF ~Falsy(code)
       THEN initPage([props EXCEPT !.pageCode = code])
       ELSE TaskRuns /\ UNCHANGED <<loading, error, pageConfig, parsedPage, dataSources, runs, registry>>
    /\ UNCHANGED <<mounted, otherThanHost>>

\* The parent changes props.config; watch(() => props.config, ...)
ChangeConfig(cfg) ==
    /\ mounted
    /\ cfg # props.config
    /\ props' = [props EXCEPT !.config = cfg]
    /\ IF ~Falsy(cfg)
       THEN initPage([props EXCEPT !.config = cfg])
       ELSE TaskRuns /\ UNCHANGED <<loading, error, pageConfig, parsedPage, dataSources, runs, registry>>
    /\ UNCHANGED <<mounted, otherThanHost>>

\* reload(), from the button of the error view or from the parent
Reload ==
    /\ mounted
    /\ initPage(props)
    /\ UNCHANGED <<props, mounted, otherThanHost>>

\* The request of loadPageConfig is answered with a 200 and a document:
\* pageConfig.value = result
ConfigArrives(r) ==
    /\ runs[r].pc = "fetchingConfig"
    /\ NetworkDelivers
    /\ pageConfig' = ServerPages[runs[r].code.v]
    /\ runs' = [runs EXCEPT ![r].pc = "configLoaded"]
    /\ UNCHANGED <<props, mounted, loading, error, parsedPage, dataSources, registry, otherThanHost>>

\* The request of loadPageConfig fails, or is answered without a document.
ConfigFails(r, failure) ==
    /\ runs[r].pc = "fetchingConfig"
    /\ NetworkDelivers
    /\ runs' = [runs EXCEPT ![r].pc = "configFailed", ![r].failure = failure]
    /\ UNCHANGED <<props, mounted, loading, error, pageConfig, parsedPage, dataSources,
                   registry, otherThanHost>>

\* Caught with error.value left as it was
CaughtSilently(r, e) ==
    /\ error' = error
    /\ loading' = FALSE
    /\ runs' = [runs EXCEPT ![r].pc = "done", ![r].failure = e]

\* catch (e) { error.value = e } finally { loading.value = false }
Caught(r, e) ==
    /\ error' = e
    /\ loading' = FALSE
    /\ runs' = [runs EXCEPT ![r].pc = "done", ![r].failure = e]

\* initPage resumes after a loadPageConfig that was rejected.
RunFails(r) ==
    /\ runs[r].pc \in {"configRefused", "configFailed"}
    /\ Caught(r, runs[r].failure)
    /\ UNCHANGED <<props, mounted, pageConfig, parsedPage, dataSources, registry, otherThanHost>>

\* pageConfig.value.dataSource.filter((ds) => ds.autoLoad !== false), nothing
\* when the configuration has no dataSource
autoLoadSources(cfg) ==
    IF Falsy(Get(cfg, "dataSource")) THEN << >>
    ELSE SelectSeq(Get(cfg, "dataSource").v, AutoLoad)

\* initPage resumes after loadPageConfig: parseConfig(), then loadDataSources()
\* up to its Promise.all, one request made for every auto-load source.
parseConfig(r) ==
    /\ runs[r].pc \in {"configGiven", "configLoaded"}
    /\ LET page == IF Falsy(pageConfig) THEN Error("page configuration is empty")
                   ELSE parsePageConfig(pageConfig, userPermissions)
       IN  IF Threw(page)
           THEN /\ Caught(r, page)
                /\ UNCHANGED <<parsedPage, dataSources>>
           ELSE /\ parsedPage' = page
                /\ dataSources' = page.dataSources
                /\ runs' = [runs EXCEPT
                              ![r].pc = "awaitSources",
                              ![r].sources = autoLoadSources(pageConfig),
                              ![r].status = [i \in DOMAIN autoLoadSources(pageConfig)
                                               |-> "pending"]]
                /\ UNCHANGED <<loading, error>>
    /\ UNCHANGED <<props, mounted, pageConfig, registry, otherThanHost>>

\* What loadDataSource(ds) resolves with, for the i-th source of call r
loadDataSource(ds, r, i) ==
    CASE Get(ds, "type") = Str("static") -> Get(Get(ds, "config"), "data")
      [] Get(ds, "type") = Str("api") -> FetchedData(r, i)
      [] Get(ds, "type") = Str("computed") -> Null
      [] OTHER -> Null

\* const data = await loadDataSource(ds); dataSources.value.set(ds.id, data)
SourceLoads(r, i) ==
    /\ runs[r].pc = "awaitSources"
    /\ i \in DOMAIN runs[r].status
    /\ runs[r].status[i] = "pending"
    /\ IsApi(runs[r].sources[i]) => NetworkDelivers
    /\ dataSources' = MapSet(dataSources, Get(runs[r].sources[i], "id"),
                             loadDataSource(runs[r].sources[i], r, i))
    /\ runs' = [runs EXCEPT ![r].status[i] = "stored"]
    /\ UNCHANGED <<props, mounted, loading, error, pageConfig, parsedPage, registry, otherThanHost>>

\* The request of an 'api' source fails: catch (e) { console.error(...) }
SourceFails(r, i) ==
    /\ runs[r].pc = "awaitSources"
    /\ i \in DOMAIN runs[r].status
    /\ runs[r].status[i] = "pending"
    /\ IsApi(runs[r].sources[i])
    /\ NetworkDelivers
    /\ runs' = [runs EXCEPT ![r].status[i] = "failed"]
    /\ UNCHANGED <<props, mounted, loading, error, pageConfig, parsedPage, dataSources,
                   registry, otherThanHost>>

\* initPage resumes after loadDataSources: emit('loaded'), then the finally
Finish(r) ==
    /\ runs[r].pc = "awaitSources"
    /\ AllSettled(r)
    /\ loading' = FALSE
    /\ runs' = [runs EXCEPT ![r].pc = "done"]
    /\ UNCHANGED <<props, mounted, error, pageConfig, parsedPage, dataSources, registry, otherThanHost>>

\* The props the page is created with.
InitialProps ==
    { [pageCode |-> code, config |-> Undefined] : code \in PageCodes \cup { Str("") } }
    \cup { [pageCode |-> Str(""), config |-> DirectConfig] }

HostInit ==
    /\ ExceptionUnused
    /\ ReportUnused
    /\ LogUnused
    /\ AccessUnused
    /\ StorageUnused
    /\ SyncUnused
    /\ TokenUnused
    /\ RetryUnused
    /\ CallsUnused
    /\ BindingsUnused
    /\ props \in InitialProps
    /\ Unmounted
    /\ userPermissions \in { << >>, << "p1" >> }
    /\ config = Undefined
    /\ pc = "input"
    /\ validation = None
    /\ parseResult = None
    /\ registry = {}
    /\ RenderUnused

HostNext ==
    \/ \E urlPageCode \in BOOLEAN : Mount(urlPageCode)
    \/ \E code \in PageCodes \cup { Str("") } : ChangePageCode(code)
    \/ \E cfg \in { Undefined, DirectConfig } : ChangeConfig(cfg)
    \/ Reload
    \/ \E r \in Runs : ConfigArrives(r)
    \/ \E r \in Runs : \E failure \in { Error("loading the page configuration failed"),
                                       Error("network request failed") } :
          ConfigFails(r, failure)
    \/ \E r \in Runs : RunFails(r)
    \/ \E r \in Runs : parseConfig(r)
    \/ \E r \in Runs : \E i \in FetchIndexes : SourceLoads(r, i)
    \/ \E r \in Runs : \E i \in FetchIndexes : SourceFails(r, i)
    \/ \E r \in Runs : Finish(r)

SpecHost == HostInit /\ [][HostNext]_vars

-----------------------------------------------------------------------------
(* C10: when the auto-load data sources of a page are fetched, the failure *)
(* of one fetch does not keep the other fetches from completing and being  *)
(* stored, does not put the page into its error state, and leaves the      *)
(* entry of the failed source at null. It is stated of the latest call of  *)
(* initPage at the moment the fetches it made have all settled.            *)

\* Call r of initPage is the latest one, it has made its fetches and every
\* one has settled.
FetchesSettled(r) ==
    /\ runs[r].pc = "awaitSources"
    /\ AllSettled(r)
    /\ \A q \in Runs : q > r => runs[q].pc = "idle"

\* The i-th fetch of call r failed.
FetchFailed(r, i) == i \in DOMAIN runs[r].status /\ runs[r].status[i] = "failed"

\* No call of initPage failed to load or to parse its configuration.
NoRunFailed == \A r \in Runs : runs[r].failure = Null

C10_FetchFailureIsIsolated ==
    \A r \in Runs : \A i \in DOMAIN runs[r].status :
        FetchesSettled(r) /\ FetchFailed(r, i) =>
            /\ \A j \in DOMAIN runs[r].status : j # i => runs[r].status[j] = "stored"
            /\ NoRunFailed => error = Null
            /\ MapGet(dataSources, Get(runs[r].sources[i], "id")) = Null

-----------------------------------------------------------------------------
(* The template of the page: which of its views is displayed               *)

\* userStore.hasPermission(permission)
checkPermission(permission) ==
    Falsy(permission) \/ permission \in PermissionSet(userPermissions)

\* hasPermission: !pageConfig.value?.permission || checkPermission(...)
hasPermission ==
    \/ ReadThrows(pageConfig)
    \/ Falsy(Get(pageConfig, "permission"))
    \/ checkPermission(Get(pageConfig, "permission"))

\* The v-if / v-else-if chain of the template
View ==
    IF loading THEN "loading"
    ELSE IF ~Falsy(error) THEN "error"
    ELSE IF ~hasPermission THEN "forbidden"
    ELSE IF ~Falsy(parsedPage) THEN "content"
    ELSE "empty"

-----------------------------------------------------------------------------
(* C11: whenever fetching or parsing the page configuration fails, the     *)
(* page is in its error view, the one with the reload button, and shows no *)
(* component content: in the step in which a call of initPage fails, and   *)
(* for as long as the call that failed is the latest call of initPage.     *)

\* Call r of initPage failed to fetch or to parse its configuration.
RunFailed(r) == runs[r].pc = "done" /\ ~Falsy(runs[r].failure)

\* No call of initPage was made after call r.
IsLatestRun(r) == \A q \in Runs : q > r => runs[q].pc = "idle"

C11_FailedLoadShowsError ==
    \A r \in Runs : RunFailed(r) /\ IsLatestRun(r) => View = "error"

\* A reload fails after an earlier load has succeeded: the tree of the
\* earlier load is still held, and the error view is displayed.
C11_Witness ==
    /\ runs[1].pc = "done" /\ Falsy(runs[1].failure)
    /\ RunFailed(2)
    /\ ~Falsy(parsedPage)
    /\ View = "error"

-----------------------------------------------------------------------------
(* page-builder/renderer: renderComponent and renderPage, and the template *)
(* of pages/dynamic/index.vue, which renders a parsed page on its own      *)

\* A registered component, named by the name it is registered under
Component(name) == [k |-> "componentDef", name |-> name]

\* h(type, props, children)
h(type, vprops, children) ==
    [k |-> "vnode", type |-> type, props |-> vprops, children |-> children]

\* options.customComponents?.get(type) || componentRegistry.get(type)
LookupComponent(type, options) ==
    IF \/ options.customComponents # Undefined /\ type.v \in options.customComponents.v
       \/ type.v \in registry
    THEN Component(type.v)
    ELSE Undefined

\* items.filter(Boolean), for a list of vnodes and nulls
RECURSIVE FilterBoolean(_)
FilterBoolean(items) ==
    IF items = << >> THEN << >>
    ELSE IF Falsy(Head(items)) THEN FilterBoolean(Tail(items))
    ELSE << Head(items) >> \o FilterBoolean(Tail(items))

\* h('div', { class: 'component-not-found' }, `[${config.type}]`)
NotFoundPlaceholder(type) ==
    h(Str("div"), Obj([class |-> Str("component-not-found")]), Str("[" \o type.v \o "]"))

RECURSIVE renderComponent(_, _)
\* renderComponent(config, options): null for a hidden node, the placeholder
\* for a type without a component, else the component with a copy of the
\* props and the rendered children that are not null (config.children?.map
\* gives undefined for a node without children, and so no slot)
renderComponent(node, options) ==
    IF ~node.visible THEN Null
    ELSE IF LookupComponent(node.type, options) = Undefined
    THEN NotFoundPlaceholder(node.type)
    ELSE LET children ==
               IF ReadThrows(node.children) THEN << >>
               ELSE FilterBoolean([i \in DOMAIN node.children.v |->
                                      renderComponent(node.children.v[i], options)])
         IN  h(LookupComponent(node.type, options), Spread(node.props),
               IF children # << >> THEN Arr(children) ELSE Undefined)

\* renderPage(page, options)
renderPage(page, options) ==
    FilterBoolean([i \in DOMAIN page.components |->
                      renderComponent(page.components[i], options)])

\* getComponentByType(type): getComponent(type), or 'view' for a type that
\* is not registered
getComponentByType(type) ==
    IF type.v \in registry THEN Component(type.v) ELSE Str("view")

\* renderedComponents: parsedPage.value.components.filter((comp) => comp.visible)
renderedComponents(page) == SelectSeq(page.components, LAMBDA comp : comp.visible)

\* <component v-for="comp in renderedComponents" :is="getComponentByType(comp.type)"
\*            v-bind="comp.props" />: no slot content is passed
Template(page) ==
    [i \in DOMAIN renderedComponents(page) |->
        h(getComponentByType(renderedComponents(page)[i].type),
          renderedComponents(page)[i].props, Undefined)]

\* The parsed pages handed to the renderers, as a signed-in user with the
\* permission p1 gets them.
RenderTrees ==
    { page \in { parsePageConfig(cfg, << "p1" >>) : cfg \in VisibilityConfigs } :
        ~Threw(page) }

\* options.customComponents: left out, or a Map with a component for MText
CustomComponents == { Undefined, [k |-> "map", v |-> { "MText" }] }

RenderInit ==
    /\ ExceptionUnused
    /\ ReportUnused
    /\ LogUnused
    /\ AccessUnused
    /\ StorageUnused
    /\ SyncUnused
    /\ TokenUnused
    /\ RetryUnused
    /\ CallsUnused
    /\ BindingsUnused
    /\ ParserUnused
    /\ HostUnused
    /\ registry = {}
    /\ tree \in RenderTrees
    /\ vnodes = None
    /\ hostNodes = None

\* registerComponents({ MButton, MInput, ... }), as initComponents calls it
RegisterComponents ==
    /\ registry = {}
    /\ vnodes = None /\ hostNodes = None
    /\ registry' = registry \cup initComponents
    /\ UNCHANGED <<renderVars, otherThanRender>>

\* renderPage(tree, { context, customComponents })
RenderPage(custom) ==
    /\ vnodes' = [options |-> [customComponents |-> custom],
                  result |-> renderPage(tree, [customComponents |-> custom])]
    /\ UNCHANGED <<registry, tree, hostNodes, otherThanRender>>

\* The template of the page is rendered for tree; the page has a parsed
\* page only after initPage has called initComponents.
RenderTemplate ==
    /\ initComponents \subseteq registry
    /\ hostNodes' = Arr(Template(tree))
    /\ UNCHANGED <<registry, tree, vnodes, otherThanRender>>

RenderNext ==
    \/ RegisterComponents
    \/ \E custom \in CustomComponents : RenderPage(custom)
    \/ RenderTemplate

SpecRender == RenderInit /\ [][RenderNext]_vars

-----------------------------------------------------------------------------
(* C12: rendering a ParsedComponent tree never throws; a node with         *)
(* visible = false produces nothing and none of its descendants is         *)
(* rendered; a visible node whose type has no component at render time     *)
(* produces a placeholder that carries the name of the type; every other   *)
(* visible node is instantiated with its props and its recursively         *)
(* rendered children. It is stated of renderPage and of the template of    *)
(* the page.                                                               *)

\* The children of a parsed node, and of a vnode
NodeChildren(node) == IF IsArray(node.children) THEN node.children.v ELSE << >>

\* The vnode carries the name of the type in its text.
CarriesTypeName(vnode, type) == vnode.children = Str("[" \o type.v \o "]")

RECURSIVE RenderedAs(_, _, _)
\* out is the rendering of the list nodes that the claim describes, for the
\* types in known having a component: one vnode for each visible node, in
\* order
RenderedAs(nodes, out, known) ==
    LET visible == SelectSeq(nodes, LAMBDA node : node.visible)
    IN  /\ Len(out) = Len(visible)
        /\ \A i \in DOMAIN visible :
              IF visible[i].type.v \notin known
              THEN CarriesTypeName(out[i], visible[i].type)
              ELSE /\ out[i].type = Component(visible[i].type.v)
                   /\ out[i].props = visible[i].props
                   /\ RenderedAs(NodeChildren(visible[i]), NodeChildren(out[i]), known)

\* The types that have a component for a call of renderPage
KnownTo(options) ==
    registry \cup (IF options.customComponents = Undefined THEN {}
                   ELSE options.customComponents.v)

\* What renderPage returned is the rendering the claim describes.
RenderPageConforms ==
    vnodes # None => RenderedAs(tree.components, vnodes.result, KnownTo(vnodes.options))

C12_RenderingContract ==
    /\ RenderPageConforms
    /\ hostNodes # None => RenderedAs(tree.components, hostNodes.v, registry)

-----------------------------------------------------------------------------
(* page-builder/parser: getDataBindings                                    *)

RECURSIVE collectBindings(_, _, _)
\* collectBindings without the descent into the children
collectTopLevelBindings(components, i, map) ==
    IF i > Len(components) THEN map
    ELSE LET binding == Get(components[i], "dataBinding")
             source == Get(binding, "source")
         IN  collectBindings(components, i + 1,
                 IF Falsy(binding) THEN map
                 ELSE MapSet(map, source,
                             Append(IF MapHas(map, source) THEN MapGet(map, source)
                                    ELSE << >>,
                                    Get(binding, "field"))))

\* collectBindings(components), from element i on, with the map built so
\* far: a component's own binding is pushed before its children are visited
collectBindings(components, i, map) ==
    IF i > Len(components) THEN map
    ELSE LET comp == components[i]
             binding == Get(comp, "dataBinding")
             source == Get(binding, "source")
             own == IF Falsy(binding) THEN map
                    ELSE MapSet(map, source,
                                Append(IF MapHas(map, source) THEN MapGet(map, source)
                                       ELSE << >>,
                                       Get(binding, "field")))
             below == IF Falsy(Get(comp, "children")) THEN own
                      ELSE collectBindings(Get(comp, "children").v, 1, own)
         IN  collectBindings(components, i + 1, below)

\* getDataBindings(config)
getDataBindings(cfg) == collectBindings(Get(cfg, "components").v, 1, EmptyMap)

\* Component literals with and without a data binding.
BoundName ==
    [id |-> Str("comp1"), type |-> Str("MInput"), props |-> Obj(NoProps),
     dataBinding |-> Obj([source |-> Str("form"), field |-> Str("name")])]
BoundAge ==
    [id |-> Str("comp2"), type |-> Str("MInput"), props |-> Obj(NoProps),
     dataBinding |-> Obj([source |-> Str("form"), field |-> Str("age")])]
BoundItems ==
    [id |-> Str("comp3"), type |-> Str("MText"), props |-> Obj(NoProps),
     dataBinding |-> Obj([source |-> Str("list"), field |-> Str("items")])]
BindingBases == { PlainComponent, BoundName, BoundAge, BoundItems }

BindingConfigs ==
    { PageOf(f) :
        f \in ForestsUpTo(BindingBases, { Obj(b) : b \in BindingBases }, MaxNodes) }

BindingsInit ==
    /\ ExceptionUnused
    /\ ReportUnused
    /\ LogUnused
    /\ AccessUnused
    /\ StorageUnused
    /\ SyncUnused
    /\ TokenUnused
    /\ RetryUnused
    /\ CallsUnused
    /\ config \in BindingConfigs
    /\ userPermissions = << >>
    /\ pc = "input"
    /\ validation = None
    /\ parseResult = None
    /\ HostUnused
    /\ registry = {}
    /\ RenderUnused
    /\ bindings = None

\* const bindings = getDataBindings(config)
GetDataBindings ==
    /\ bindings = None
    /\ bindings' = getDataBindings(config)
    /\ UNCHANGED otherThanBindings

SpecBindings == BindingsInit /\ [][GetDataBindings]_vars

-----------------------------------------------------------------------------
(* C13: getDataBindings(config) returns, for each source id that some      *)
(* component at any depth binds to, the list of the bound fields of        *)
(* exactly those components, in depth-first order (a parent before its     *)
(* children, children in array order); a source that no component binds to *)
(* does not appear in the map.                                             *)

RECURSIVE PathBefore(_, _)
\* p comes before q in the depth-first order: p is a proper prefix of q, or
\* p branches off to an earlier child
PathBefore(p, q) ==
    IF p = << >> THEN q # << >>
    ELSE IF q = << >> THEN FALSE
    ELSE IF Head(p) # Head(q) THEN Head(p) < Head(q)
    ELSE PathBefore(Tail(p), Tail(q))

BindingAt(p) == Get(ConfigAt(Components, p), "dataBinding")

\* The components that bind to the source
Binders(source) ==
    { p \in NodePaths(Components) :
        ~Falsy(BindingAt(p)) /\ Get(BindingAt(p), "source") = source }

BoundSources ==
    { Get(BindingAt(p), "source") : p \in { q \in NodePaths(Components) : ~Falsy(BindingAt(q)) } }

C13_BindingsInTreeOrder ==
    bindings # None =>
        /\ MapKeys(bindings) = BoundSources
        /\ \A source \in BoundSources :
              /\ Len(MapGet(bindings, source)) = Cardinality(Binders(source))
              /\ \A p \in Binders(source) :
                    MapGet(bindings, source)[
                        1 + Cardinality({ q \in Binders(source) : PathBefore(q, p) })]
                      = Get(BindingAt(p), "field")

\* A parent bound to form.age with a child bound to form.name, followed by a
\* sibling bound to form.age; nothing binds to list.
C13_Witness ==
    /\ bindings # None
    /\ Len(Components) = 2
    /\ MapHas(bindings, Str("form"))
    /\ MapGet(bindings, Str("form")) = << Str("age"), Str("name"), Str("age") >>
    /\ ~MapHas(bindings, Str("list"))

-----------------------------------------------------------------------------
(* The objects a ParsedPage shares with the configuration it was parsed    *)
(* from. parseComponent builds a new object for every component, a new     *)
(* array for its children and, with { ...config.props }, a new object for  *)
(* its props: the values of the props are copied as they are, so a value   *)
(* that is an object or an array is the very object the configuration      *)
(* holds. dataSources is a new Map whose values are ds.config.data itself. *)
(* A caller that has the parsed page can change any object it reaches.     *)

StyledComponent ==
    [id |-> Str("s"), type |-> Str("MCard"),
     props |-> Obj([title |-> Str("T"), style |-> Obj([color |-> Str("red")])])]
StaticObjectY ==
    Obj([id |-> Str("y"), type |-> Str("static"),
         config |-> Obj([data |-> Obj([total |-> Num(0)])])])

MaxTopLevel == 2   \* top-level components of one of these configurations

\* Configurations with props and data that are objects, arrays and strings.
SharingConfigs ==
    { Obj([pageCode |-> Str("demo"), title |-> Str("Demo"),
           components |-> Arr(c), dataSource |-> Arr(d)]) :
        c \in SeqsUpTo({ Obj(PlainComponent), Obj(StyledComponent),
                         WithChildren(GatedComponent, Arr(<< Obj(PlainComponent) >>)),
                         Obj(NoIdComponent) }, MaxTopLevel),
        d \in SeqsUpTo({ StaticX, ApiX, StaticObjectY, StaticY }, MaxSources) }

\* A mutable JavaScript value: changing it is seen through every reference.
IsReference(x) == x.k \in {"object", "array"}

\* What an object or an array is after the caller has changed it: a new
\* property on an object, a new element at the end of an array.
Touched(x) ==
    IF x.k = "array" THEN Arr(Append(x.v, Str("changed")))
    ELSE Obj(("changed" :> Bool(TRUE)) @@ x.v)

\* The declaration whose data the entry of id holds: the last one with the id
LastSource(id) ==
    CHOOSE i \in DOMAIN Sources :
        /\ Get(Sources[i], "id") = id
        /\ \A j \in DOMAIN Sources : Get(Sources[j], "id") = id => j <= i

SharingInit ==
    /\ ExceptionUnused
    /\ ReportUnused
    /\ LogUnused
    /\ AccessUnused
    /\ StorageUnused
    /\ SyncUnused
    /\ TokenUnused
    /\ RetryUnused
    /\ CallsUnused
    /\ HostUnused
    /\ registry = {}
    /\ RenderUnused
    /\ BindingsUnused
    /\ config \in SharingConfigs
    /\ userPermissions \in { << >>, << "p1" >> }
    /\ pc = "input"
    /\ validation = None
    /\ parseResult = None

\* const page = parsePageConfig(config, userPermissions), its exception caught
CallParse ==
    /\ pc = "input"
    /\ parseResult' = parsePageConfig(config, userPermissions)
    /\ pc' = "parsed"
    /\ UNCHANGED <<config, userPermissions, validation, otherThanParser>>

\* page.components[i].props[name] = 'changed': the props object is a copy
SetProp(i, name) ==
    /\ pc = "parsed" /\ ~Threw(parseResult)
    /\ i \in DOMAIN parseResult.components
    /\ parseResult' = [parseResult EXCEPT
                         !.components[i].props.v = (name :> Str("changed")) @@ @]
    /\ pc' = "changed"
    /\ UNCHANGED <<config, userPermissions, validation, otherThanParser>>

\* page.components[i].children.push(child): the children array is a new one
PushChild(i) ==
    /\ pc = "parsed" /\ ~Threw(parseResult)
    /\ i \in DOMAIN parseResult.components
    /\ IsArray(parseResult.components[i].children)
    /\ parseResult' = [parseResult EXCEPT
                         !.components[i].children.v = Append(@, parseResult.components[i])]
    /\ pc' = "changed"
    /\ UNCHANGED <<config, userPermissions, validation, otherThanParser>>

\* page.components[i].props[name] is an object or an array and the caller
\* changes it: it is the object that config.components[i].props[name] is
ChangePropValue(i, name) ==
    /\ pc = "parsed" /\ ~Threw(parseResult)
    /\ i \in DOMAIN parseResult.components
    /\ name \in DOMAIN parseResult.components[i].props.v
    /\ IsReference(parseResult.components[i].props.v[name])
    /\ parseResult' = [parseResult EXCEPT !.components[i].props.v[name] = Touched(@)]
    /\ config' = [config EXCEPT !.v.components.v[i].v.props.v[name] = Touched(@)]
    /\ pc' = "changed"
    /\ UNCHANGED <<userPermissions, validation, otherThanParser>>

\* page.dataSources.get(id) is an object or an array and the caller changes
\* it: it is the object that ds.config.data is
ChangeData(id) ==
    /\ pc = "parsed" /\ ~Threw(parseResult)
    /\ MapHas(parseResult.dataSources, id)
    /\ IsReference(MapGet(parseResult.dataSources, id))
    /\ parseResult' = [parseResult EXCEPT
                         !.dataSources = MapSet(@, id, Touched(MapGet(@, id)))]
    /\ config' = [config EXCEPT
                    !.v.dataSource.v[LastSource(id)].v.config.v.data = Touched(@)]
    /\ pc' = "changed"
    /\ UNCHANGED <<userPermissions, validation, otherThanParser>>

\* page.dataSources.set(id, 'changed'): the Map is a new one
SetData(id) ==
    /\ pc = "parsed" /\ ~Threw(parseResult)
    /\ MapHas(parseResult.dataSources, id)
    /\ parseResult' = [parseResult EXCEPT !.dataSources = MapSet(@, id, Str("changed"))]
    /\ pc' = "changed"
    /\ UNCHANGED <<config, userPermissions, validation, otherThanParser>>

SharingNext ==
    \/ CallParse
    \/ \E i \in 1..MaxTopLevel : \E name \in { "title", "style" } : SetProp(i, name)
    \/ \E i \in 1..MaxTopLevel : PushChild(i)
    \/ \E i \in 1..MaxTopLevel : \E name \in { "title", "style" } : ChangePropValue(i, name)
    \/ \E id \in { Str("x"), Str("y") } : ChangeData(id)
    \/ \E id \in { Str("x"), Str("y") } : SetData(id)

SpecSharing == SharingInit /\ [][SharingNext]_vars

-----------------------------------------------------------------------------
(* C14: parsePageConfig only reads its arguments, and the ParsedPage it    *)
(* returns shares no mutable structure with config: no step, the call or a *)
(* change the caller makes to the props or the children of a parsed        *)
(* component or to a value held in dataSources, changes config or          *)
(* userPermissions.                                                        *)

C14_InputNeverChanges ==
    [][config' = config /\ userPermissions' = userPermissions]_vars

-----------------------------------------------------------------------------
(* A caller that calls validatePageConfig and parsePageConfig again and    *)
(* again, with configurations and permission lists of its choice           *)

MaxCalls == 3      \* calls made by the caller

\* The configurations of the caller: with and without gated components,
\* valid and invalid.
CallConfigs ==
    { PageOf(<< Obj(GatedComponent) >>),
      PageOf(<< Obj(PlainComponent), Obj(ShownGatedComponent) >>),
      PageOf(<< Obj(NoIdComponent) >>),
      Null }

CallPermissions == { << >>, << "p1" >>, << "p1", "p2" >> }

CallsInit ==
    /\ ExceptionUnused
    /\ ReportUnused
    /\ LogUnused
    /\ AccessUnused
    /\ StorageUnused
    /\ SyncUnused
    /\ TokenUnused
    /\ RetryUnused
    /\ ParserUnused
    /\ HostUnused
    /\ registry = {}
    /\ RenderUnused
    /\ BindingsUnused
    /\ calls = << >>

\* validatePageConfig(cfg)
CallValidatePageConfig(cfg) ==
    /\ Len(calls) < MaxCalls
    /\ calls' = Append(calls, [fn |-> "validatePageConfig", config |-> cfg,
                               userPermissions |-> << >>,
                               result |-> validatePageConfig(cfg)])
    /\ UNCHANGED otherThanCalls

\* parsePageConfig(cfg, permissions), its exception caught
CallParsePageConfig(cfg, permissions) ==
    /\ Len(calls) < MaxCalls
    /\ calls' = Append(calls, [fn |-> "parsePageConfig", config |-> cfg,
                               userPermissions |-> permissions,
                               result |-> parsePageConfig(cfg, permissions)])
    /\ UNCHANGED otherThanCalls

CallsNext ==
    \/ \E cfg \in CallConfigs : CallValidatePageConfig(cfg)
    \/ \E cfg \in CallConfigs : \E permissions \in CallPermissions :
          CallParsePageConfig(cfg, permissions)

SpecCalls == CallsInit /\ [][CallsNext]_vars

-----------------------------------------------------------------------------
(* C15: over any sequence of validatePageConfig and parsePageConfig calls  *)
(* the result of a call depends only on its own config and                 *)
(* userPermissions: two calls with equal arguments give equal results      *)
(* whatever was called in between, and a permission passed to an earlier   *)
(* call never makes a component visible in a later call that was not given *)
(* it.                                                                     *)

SameArguments(a, b) ==
    a.fn = b.fn /\ a.config = b.config /\ a.userPermissions = b.userPermissions

-----------------------------------------------------------------------------
(* HTTP retry: withRetry(requestFn, config)                                *)

MaxRetryBound == 3     \* the largest maxRetry a caller configures
RetryDelay == 1000     \* appConfig.retryDelay

\* new AppError(code, message)
AppError(code) == [k |-> "throw", name |-> "AppError", code |-> code]

\* The errors a request function fails with.
RequestErrors ==
    { AppError("NETWORK_ERROR"), AppError("TIMEOUT_ERROR"), AppError("BUSINESS_ERROR"),
      Error("request failed") }

\* The shouldRetry functions of the callers: that of defaultRetryConfig, one
\* that retries network errors only, and undefined passed explicitly.
RetryPolicies == { "default", "networkOnly", "undefined" }

\* shouldRetry && !shouldRetry(lastError, attempt) is false
ShouldRetry(policy, e) ==
    CASE policy = "default" ->
           IF e.name = "AppError" THEN e.code \in {"NETWORK_ERROR", "TIMEOUT_ERROR"}
           ELSE TRUE
      [] policy = "networkOnly" -> e.name = "AppError" /\ e.code = "NETWORK_ERROR"
      [] OTHER -> TRUE

\* calculateRetryDelay(attempt, baseDelay)
calculateRetryDelay(attempt, baseDelay) == baseDelay * 2 ^ (attempt - 1)

\* A loop without its test: while (true)
LoopEndsAlways(r) == FALSE

\* The loop of withRetry is left: state.attempt > maxRetry
LoopEnds(r) == r.attempt > r.maxRetry

\* The loop is entered or left: requestFn() is called, or the last error is
\* thrown (a NETWORK_ERROR when there is none)
Loop(r) ==
    IF LoopEnds(r)
    THEN [r EXCEPT !.pc = "rejected",
                   !.result = IF r.lastError = Null THEN AppError("NETWORK_ERROR")
                              ELSE r.lastError]
    ELSE [r EXCEPT !.pc = "calling", !.calls = @ + 1]

RetryInit ==
    /\ ExceptionUnused
    /\ ReportUnused
    /\ LogUnused
    /\ AccessUnused
    /\ StorageUnused
    /\ SyncUnused
    /\ TokenUnused
    /\ ParserUnused
    /\ HostUnused
    /\ registry = {}
    /\ RenderUnused
    /\ BindingsUnused
    /\ CallsUnused
    /\ retry = None

\* withRetry(requestFn, { maxRetry, retryDelay, shouldRetry }) up to its
\* first await
WithRetry(maxRetry, policy) ==
    /\ retry = None
    /\ retry' = Loop([pc |-> "start", maxRetry |-> maxRetry, shouldRetry |-> policy,
                      attempt |-> 0, calls |-> 0, lastError |-> Null, errors |-> << >>,
                      delayMs |-> 0, result |-> None])
    /\ UNCHANGED otherThanRetry

\* requestFn() resolves: return { response, retryCount: state.attempt }
RequestSucceeds ==
    /\ retry # None /\ retry.pc = "calling"
    /\ retry' = [retry EXCEPT !.pc = "resolved",
                              !.result = [response |-> "response",
                                          retryCount |-> retry.attempt]]
    /\ UNCHANGED otherThanRetry

\* requestFn() rejects with e: the catch block
RequestFails(e) ==
    /\ retry # None /\ retry.pc = "calling"
    /\ LET caught == [retry EXCEPT !.lastError = e, !.attempt = @ + 1,
                                   !.errors = Append(@, e)]
       IN  retry' =
             IF LoopEnds(caught) \/ ~ShouldRetry(caught.shouldRetry, e)
             THEN [caught EXCEPT !.pc = "rejected", !.result = e]
             ELSE [caught EXCEPT !.pc = "delaying",
                                 !.delayMs = calculateRetryDelay(caught.attempt, RetryDelay)]
    /\ UNCHANGED otherThanRetry

\* await delay(delayMs) is over: the loop goes round
DelayElapses ==
    /\ retry # None /\ retry.pc = "delaying"
    /\ retry' = Loop(retry)
    /\ UNCHANGED otherThanRetry

RetryNext ==
    \/ \E maxRetry \in 0..MaxRetryBound : \E policy \in RetryPolicies :
          WithRetry(maxRetry, policy)
    \/ RequestSucceeds
    \/ \E e \in RequestErrors : RequestFails(e)
    \/ DelayElapses

SpecRetry == RetryInit /\ [][RetryNext]_vars

\* Every request of the call so far failed with a network error.
AllNetworkErrors(r) ==
    \A i \in 1..Len(r.errors) : r.errors[i] = AppError("NETWORK_ERROR")

\* C16: withRetry configured with maxRetry = m calls the request function at
\* most m + 1 times; when every attempt fails with a network error it rejects
\* after exactly m + 1 calls with the last error; when attempt k is the first
\* to succeed it has made k calls and reports retryCount = k - 1; and an error
\* for which shouldRetry returns false is followed by no further call.
C16_RetryCountIsBounded ==
    retry # None =>
        /\ retry.calls <= retry.maxRetry + 1
        /\ retry.pc = "rejected" /\ AllNetworkErrors(retry) =>
              /\ retry.calls = retry.maxRetry + 1
              /\ retry.result = retry.errors[Len(retry.errors)]
        /\ retry.pc = "resolved" =>
              /\ retry.calls = Len(retry.errors) + 1
              /\ retry.result.retryCount = retry.calls - 1
        /\ \A i \in 1..Len(retry.errors) :
              ~ShouldRetry(retry.shouldRetry, retry.errors[i]) =>
                  /\ i = Len(retry.errors)
                  /\ retry.calls = i
                  /\ retry.pc = "rejected"

\* A call with maxRetry = 2 whose three requests all failed with a network
\* error, and was rejected.
C16_Witness ==
    /\ retry # None
    /\ retry.maxRetry = 2
    /\ retry.pc = "rejected"
    /\ retry.calls = 3
    /\ AllNetworkErrors(retry)
    /\ retry.result = AppError("NETWORK_ERROR")

-----------------------------------------------------------------------------
(* Token refresh: refreshToken() and withTokenRefresh(requestFn)           *)

MaxCallers == 2     \* the calls of refreshToken / withTokenRefresh of a run
Callers == 1..MaxCallers

\* A promise that is not settled: that of the call that sent the refresh
\* request ("owner") or of a call in refreshState.pendingRequests ("waiter")
Pending(role) == [k |-> "pending", role |-> role]

\* A promise resolved with value
Resolved(value) == [k |-> "resolved", v |-> value]

IsSettled(promise) == promise # None /\ promise.k # "pending"

\* A process that has called nothing yet.  promise, settled, joined and sent
\* describe its latest call of refreshToken; requests, first, refreshed and
\* second its call of withTokenRefresh.
IdleCaller ==
    [kind |-> "none", pc |-> "idle", refreshCalls |-> 0, promise |-> None, settled |-> 0,
     joined |-> FALSE, sent |-> 0, requests |-> 0, first |-> None, refreshed |-> None,
     second |-> None, result |-> None]

\* The stored user after login
LoggedIn == [token |-> 0, refreshToken |-> 0]

\* getStoredUser(): { token, refreshToken, tokenExpireTime } | null
getStoredUser == storedUser

\* The time of a call against tokenExpireTime: more than the threshold before
\* it, within the threshold, or past it
Clocks == { "fresh", "soon", "expired" }

\* isTokenExpiringSoon()
isTokenExpiringSoon(clock) == getStoredUser = Null \/ clock \in {"soon", "expired"}

\* isTokenExpired()
isTokenExpired(clock) == getStoredUser = Null \/ clock = "expired"

\* resolve / reject of a promise: a settled promise keeps its outcome
Settle(cs, c, outcome) ==
    [cs EXCEPT ![c].promise = IF @ # None /\ @.k = "pending" THEN outcome ELSE @,
               ![c].settled = @ + 1]

\* refreshState.pendingRequests.forEach(({ resolve }) => resolve(token)),
\* or reject(error)
RECURSIVE SettleAll(_, _, _)
SettleAll(cs, pendingRequests, outcome) ==
    IF pendingRequests = << >> THEN cs
    ELSE SettleAll(Settle(cs, Head(pendingRequests), outcome), Tail(pendingRequests), outcome)

\* A refresh that leaves its waiters in the queue
FlushedKept(pendingRequests) == pendingRequests

\* refreshState.pendingRequests = []
Flushed(pendingRequests) == << >>

\* saveToken(token, refreshToken, expireTime)
saveToken(token) ==
    IF storedUser = Null THEN Null ELSE [token |-> token, refreshToken |-> token]

\* The continuation of an await of withTokenRefresh is in the microtask
\* queue: it runs before the next network answer or user action.
ContinuationQueued ==
    \E c \in Callers : callers[c].pc \in {"preRefresh", "refresh"} /\ IsSettled(callers[c].promise)

\* refreshToken() called by c, up to its await; cs is callers with c's own
\* bookkeeping done
refreshToken(c, cs) ==
    LET called == [cs EXCEPT ![c].refreshCalls = @ + 1, ![c].settled = 0, ![c].sent = 0,
                             ![c].joined = refreshState.isRefreshing]
    IN  IF getStoredUser = Null
        THEN /\ callers' = [called EXCEPT ![c].promise = AppError("LOGIN_REQUIRED"),
                                          ![c].settled = 1]
             /\ UNCHANGED <<refreshState, inFlight>>
        ELSE IF refreshState.isRefreshing
        THEN /\ callers' = [called EXCEPT ![c].promise = Pending("waiter")]
             /\ refreshState' = [refreshState EXCEPT !.pendingRequests = Append(@, c)]
             /\ UNCHANGED inFlight
        ELSE /\ callers' = [called EXCEPT ![c].promise = Pending("owner"), ![c].sent = 1]
             /\ refreshState' = [refreshState EXCEPT !.isRefreshing = TRUE]
             /\ inFlight' = inFlight \cup {c}

TokenInit ==
    /\ ExceptionUnused
    /\ ReportUnused
    /\ LogUnused
    /\ AccessUnused
    /\ StorageUnused
    /\ SyncUnused
    /\ ParserUnused
    /\ HostUnused
    /\ registry = {}
    /\ RenderUnused
    /\ BindingsUnused
    /\ CallsUnused
    /\ RetryUnused
    /\ storedUser = LoggedIn
    /\ refreshState = [isRefreshing |-> FALSE, pendingRequests |-> << >>]
    /\ inFlight = {}
    /\ issued = 0
    /\ callers = [c \in Callers |-> IdleCaller]

\* Some code calls refreshToken()
CallRefreshToken(c) ==
    /\ ~ContinuationQueued
    /\ callers[c].kind = "none"
    /\ refreshToken(c, [callers EXCEPT ![c].kind = "refresh", ![c].pc = "called"])
    /\ UNCHANGED <<storedUser, issued, otherThanToken>>

\* Some code calls withTokenRefresh(requestFn): up to its first await, that
\* of refreshToken() when the token expires soon, else that of requestFn()
CallWithTokenRefresh(c, clock) ==
    /\ ~ContinuationQueued
    /\ callers[c].kind = "none"
    /\ IF isTokenExpiringSoon(clock) /\ ~isTokenExpired(clock)
       THEN refreshToken(c, [callers EXCEPT ![c].kind = "wrapped", ![c].pc = "preRefresh"])
       ELSE /\ callers' = [callers EXCEPT ![c].kind = "wrapped", ![c].pc = "request1",
                                          ![c].requests = 1]
            /\ UNCHANGED <<refreshState, inFlight>>
    /\ UNCHANGED <<storedUser, issued, otherThanToken>>

\* The server answers the refresh request of o with a new token: the success
\* callback resolves, and refreshToken runs on to its end
RefreshSucceeds(o) ==
    /\ ~ContinuationQueued
    /\ o \in inFlight
    /\ inFlight' = inFlight \ {o}
    /\ issued' = issued + 1
    /\ storedUser' = saveToken(issued + 1)
    /\ callers' = Settle(SettleAll(callers, refreshState.pendingRequests, Resolved(issued + 1)),
                         o, Resolved(issued + 1))
    /\ refreshState' = [isRefreshing |-> FALSE,
                        pendingRequests |-> Flushed(refreshState.pendingRequests)]
    /\ UNCHANGED otherThanToken

\* The server refuses the refresh request of o, or the request fails: the
\* catch block and the finally of refreshToken
RefreshFails(o, code) ==
    /\ ~ContinuationQueued
    /\ o \in inFlight
    /\ inFlight' = inFlight \ {o}
    /\ storedUser' = Null
    /\ callers' = Settle(SettleAll(callers, refreshState.pendingRequests, AppError(code)),
                         o, AppError(code))
    /\ refreshState' = [isRefreshing |-> FALSE,
                        pendingRequests |-> Flushed(refreshState.pendingRequests)]
    /\ UNCHANGED <<issued, otherThanToken>>

\* The server answers 200 with the body null: data.code throws inside the
\* success callback, and the promise of callRefreshTokenApi is never settled
RefreshUnreadable(o) ==
    /\ ~ContinuationQueued
    /\ o \in inFlight
    /\ inFlight' = inFlight \ {o}
    /\ UNCHANGED <<storedUser, refreshState, issued, callers, otherThanToken>>

\* logout() of the auth service reaches clearAuthCache()
Logout ==
    /\ ~ContinuationQueued
    /\ storedUser # Null
    /\ storedUser' = Null
    /\ UNCHANGED <<refreshState, inFlight, issued, callers, otherThanToken>>

\* The refresh before the request is over, whatever its outcome: requestFn()
AfterPreRefresh(c) ==
    /\ callers[c].pc = "preRefresh"
    /\ IsSettled(callers[c].promise)
    /\ callers' = [callers EXCEPT ![c].pc = "request1", ![c].requests = 1]
    /\ UNCHANGED <<storedUser, refreshState, inFlight, issued, otherThanToken>>

\* requestFn() resolves: withTokenRefresh returns its value
RequestSucceeds1(c) ==
    /\ ~ContinuationQueued
    /\ callers[c].pc = "request1"
    /\ callers' = [callers EXCEPT ![c].pc = "done", ![c].first = Resolved("response"),
                                  ![c].result = Resolved("response")]
    /\ UNCHANGED <<storedUser, refreshState, inFlight, issued, otherThanToken>>

\* The errors requestFn() fails with
WrappedRequestErrors ==
    { AppError("TOKEN_EXPIRED"), AppError("NETWORK_ERROR"), Error("request failed") }

\* A wrapper that takes every error for an expired token
IsTokenExpiredErrorAlways(e) == TRUE

\* error instanceof AppError && error.code === ErrorCode.TOKEN_EXPIRED
IsTokenExpiredError(e) == e.name = "AppError" /\ e.code = "TOKEN_EXPIRED"

\* requestFn() rejects: the catch block of withTokenRefresh, up to its await
\* of refreshToken() for TOKEN_EXPIRED
RequestFails1(c, e) ==
    /\ ~ContinuationQueued
    /\ callers[c].pc = "request1"
    /\ IF IsTokenExpiredError(e)
       THEN refreshToken(c, [callers EXCEPT ![c].pc = "refresh", ![c].first = e])
       ELSE /\ callers' = [callers EXCEPT ![c].pc = "done", ![c].first = e, ![c].result = e]
            /\ UNCHANGED <<refreshState, inFlight>>
    /\ UNCHANGED <<storedUser, issued, otherThanToken>>

\* The refresh after TOKEN_EXPIRED is over: requestFn() again, or its error
\* leaves withTokenRefresh
AfterRefresh(c) ==
    /\ callers[c].pc = "refresh"
    /\ IsSettled(callers[c].promise)
    /\ callers' =
         IF callers[c].promise.k = "resolved"
         THEN [callers EXCEPT ![c].pc = "request2", ![c].refreshed = callers[c].promise,
                              ![c].requests = @ + 1]
         ELSE [callers EXCEPT ![c].pc = "done", ![c].refreshed = callers[c].promise,
                              ![c].result = callers[c].promise]
    /\ UNCHANGED <<storedUser, refreshState, inFlight, issued, otherThanToken>>

\* The re-issued request resolves
RequestSucceeds2(c) ==
    /\ ~ContinuationQueued
    /\ callers[c].pc = "request2"
    /\ callers' = [callers EXCEPT ![c].pc = "done", ![c].second = Resolved("response 2"),
                                  ![c].result = Resolved("response 2")]
    /\ UNCHANGED <<storedUser, refreshState, inFlight, issued, otherThanToken>>

\* The re-issued request rejects
RequestFails2(c, e) ==
    /\ ~ContinuationQueued
    /\ callers[c].pc = "request2"
    /\ callers' = [callers EXCEPT ![c].pc = "done", ![c].second = e, ![c].result = e]
    /\ UNCHANGED <<storedUser, refreshState, inFlight, issued, otherThanToken>>

RefreshErrors == { "REFRESH_TOKEN_FAILED", "NETWORK_ERROR" }

TokenNext ==
    \/ \E c \in Callers : CallRefreshToken(c)
    \/ \E c \in Callers : \E clock \in Clocks : CallWithTokenRefresh(c, clock)
    \/ \E o \in Callers : RefreshSucceeds(o)
    \/ \E o \in Callers : \E code \in RefreshErrors : RefreshFails(o, code)
    \/ \E o \in Callers : RefreshUnreadable(o)
    \/ Logout
    \/ \E c \in Callers : AfterPreRefresh(c)
    \/ \E c \in Callers : RequestSucceeds1(c)
    \/ \E c \in Callers : \E e \in WrappedRequestErrors : RequestFails1(c, e)
    \/ \E c \in Callers : AfterRefresh(c)
    \/ \E c \in Callers : RequestSucceeds2(c)
    \/ \E c \in Callers : \E e \in WrappedRequestErrors : RequestFails2(c, e)

SpecToken == TokenInit /\ [][TokenNext]_vars

\* The calls of refreshToken that sent the refresh request and are not over,
\* and those that wait for it
Owners == { c \in Callers : callers[c].promise = Pending("owner") }
Waiters == { c \in Callers : callers[c].promise = Pending("waiter") }

\* At most one request in flight; isRefreshing exactly while a refresh is
\* not over; pendingRequests holds each waiting call once; no promise is
\* settled twice.
TokenRefreshState ==
    /\ Cardinality(inFlight) <= 1
    /\ refreshState.isRefreshing <=> Owners # {}
    /\ Waiters = { refreshState.pendingRequests[i] : i \in DOMAIN refreshState.pendingRequests }
    /\ Len(refreshState.pendingRequests) = Cardinality(Waiters)
    /\ \A c \in Callers :
          /\ callers[c].settled <= 1
          /\ IsSettled(callers[c].promise) => callers[c].settled = 1

\* c calls refreshToken() in this step
CallMade(c) == callers'[c].refreshCalls = callers[c].refreshCalls + 1

\* A waiting call is settled in the step that ends the refresh, with the
\* outcome of the call that ran it.
WaitersShareOutcome ==
    \A c \in Callers :
        callers[c].promise = Pending("waiter") /\ callers'[c].promise # callers[c].promise =>
            \E o \in Owners :
                /\ IsSettled(callers'[o].promise)
                /\ callers'[c].promise = callers'[o].promise
                /\ callers'[c].settled = 1
                /\ ~refreshState'.isRefreshing

WrappedRightly(c) ==
    LET w == callers[c]
    IN  /\ w.requests <= 2
        /\ w.pc = "request2" =>
              /\ w.first = AppError("TOKEN_EXPIRED")
              /\ w.refreshed.k = "resolved"
              /\ w.requests = 2
        /\ w.pc = "done" =>
              IF w.first # AppError("TOKEN_EXPIRED")
              THEN w.result = w.first /\ w.requests = 1 /\ w.refreshed = None
              ELSE IF w.refreshed.k = "resolved"
              THEN w.result = w.second /\ w.second # None /\ w.requests = 2
              ELSE w.result = w.refreshed /\ w.requests = 1 /\ w.second = None

\* C18: when the wrapped request fails with TOKEN_EXPIRED, withTokenRefresh
\* refreshes the token, then calls the request function once more and returns
\* what that call returns; it calls the request function at most twice, and
\* any other error, a failed refresh and a failure of the second request
\* reach the caller.
C18_RetriesOnceAfterRefresh ==
    \A c \in Callers : callers[c].kind = "wrapped" => WrappedRightly(c)

\* A call whose request failed with TOKEN_EXPIRED, whose refresh succeeded
\* and whose second request succeeded; and one whose refresh failed.
C18_Witness ==
    /\ callers[1].kind = "wrapped" /\ callers[1].pc = "done"
    /\ callers[1].first = AppError("TOKEN_EXPIRED")
    /\ callers[1].requests = 2
    /\ callers[1].result = Resolved("response 2")
    /\ callers[2].kind = "wrapped" /\ callers[2].pc = "done"
    /\ callers[2].first = AppError("TOKEN_EXPIRED")
    /\ callers[2].refreshed = AppError("REFRESH_TOKEN_FAILED")
    /\ callers[2].result = AppError("REFRESH_TOKEN_FAILED")
    /\ callers[2].requests = 1

-----------------------------------------------------------------------------
(* Offline queue: services/sync                                            *)

QueueCapacity == 2      \* appConfig.maxOfflineQueueSize (100), scaled down
MaxAdds == 3            \* the calls of addToQueue of a run
MaxPasses == 2          \* the calls of processQueue that are not over
MaxFailures == 3        \* the failed sends of one item
DefaultMaxRetry == 3    \* item.maxRetry || 3

ItemIds == 1..MaxAdds
PassIds == 1..MaxPasses

\* item.maxRetry of the argument of addToQueue: 0 stands for absent
MaxRetryInputs == { 0, 1 }

\* The ids of a list of queue items
IdsOf(queue) == { queue[i].id : i \in DOMAIN queue }

\* items.findIndex(item => item.id === id): 0 stands for -1
FindIndex(queue, id) ==
    IF id \in IdsOf(queue)
    THEN CHOOSE i \in DOMAIN queue : queue[i].id = id /\ \A j \in 1..(i - 1) : queue[j].id # id
    ELSE 0

\* items.splice(index): everything from index on is removed
SpliceToEnd(queue, index) == SubSeq(queue, 1, index - 1)

\* items.splice(index, 1)
Splice(queue, index) == SubSeq(queue, 1, index - 1) \o SubSeq(queue, index + 1, Len(queue))

\* serialize(value): the wrapper that storage.setSync writes
serialize(value) == [data |-> value, expireAt |-> Undefined]

\* deserialize(str): the data of a wrapper that has not expired
deserialize(wrapper) == IF wrapper.expireAt # Undefined THEN Null ELSE wrapper.data

\* storage.getSync(QUEUE_STORAGE_KEY) returns null: nothing is stored, or
\* what is stored has expired
NothingStored == storedQueue = Null \/ storedQueue.expireAt # Undefined

\* storage.getSync(QUEUE_STORAGE_KEY)
getSync == IF NothingStored THEN Null ELSE deserialize(storedQueue)

\* loadQueue(): state.items = items || []
loadQueue == IF NothingStored THEN << >> ELSE getSync

\* getQueue()
getQueue == state.items

\* A call of processQueue that has not been made, or is over and forgotten
IdlePass ==
    [pc |-> "idle", itemsToProcess |-> << >>, index |-> 0, success |-> 0, failed |-> 0,
     result |-> None]

HasFreePass == \E p \in PassIds : passes[p].pc # "sending"
FreePass == CHOOSE p \in PassIds : passes[p].pc # "sending"

\* processQueue that tests the queue only
NothingToDoWhenEmpty(st) == st.items = << >>

\* if (state.isSyncing || state.items.length === 0)
NothingToDo(st) == st.isSyncing \/ st.items = << >>

\* processQueue() up to its first await, on the service state st: the state
\* and the passes it leaves
processQueue(st, p) ==
    IF NothingToDo(st)
    THEN [state |-> st,
          passes |-> [passes EXCEPT ![p] = [IdlePass EXCEPT !.pc = "done",
                                               !.result = [success |-> 0, failed |-> 0]]]]
    ELSE [state |-> [st EXCEPT !.isSyncing = TRUE],
          passes |-> [passes EXCEPT ![p] = [IdlePass EXCEPT !.pc = "sending",
                                               !.itemsToProcess = st.items, !.index = 1]]]

\* The loop of processQueue goes on after an item: the next item is sent, or
\* the queue is saved and the pass returns.  queue is state.items after the
\* item, saved what storage holds after it.
NextItem(p, queue, saved, success, failed) ==
    LET pass == passes[p]
    IN  IF pass.index < Len(pass.itemsToProcess)
        THEN /\ passes' = [passes EXCEPT ![p].index = @ + 1, ![p].success = success,
                                         ![p].failed = failed]
             /\ state' = [state EXCEPT !.items = queue]
             /\ storedQueue' = saved
        ELSE /\ passes' = [passes EXCEPT ![p].pc = "done", ![p].success = success,
                                         ![p].failed = failed,
                                         ![p].result = [success |-> success, failed |-> failed]]
             /\ state' = [isSyncing |-> FALSE, items |-> queue]
             /\ storedQueue' = serialize(queue)

\* The ids whose request is with the server in the passes ps
InFlightIds(ps) ==
    { ps[p].itemsToProcess[ps[p].index].id : p \in { q \in PassIds : ps[q].pc = "sending" } }

\* Of ids, those that are still queued after the step and whose request the
\* step has not sent
StillOwed(ids) == (ids \ InFlightIds(passes')) \cap IdsOf(state'.items)

SyncInit ==
    /\ ExceptionUnused
    /\ ReportUnused
    /\ LogUnused
    /\ AccessUnused
    /\ StorageUnused
    /\ ParserUnused
    /\ HostUnused
    /\ registry = {}
    /\ RenderUnused
    /\ BindingsUnused
    /\ CallsUnused
    /\ RetryUnused
    /\ TokenUnused
    /\ state = [isSyncing |-> FALSE, items |-> << >>]
    /\ storedQueue = Null
    /\ initialised = FALSE
    /\ checking = FALSE
    /\ passes = [p \in PassIds |-> IdlePass]
    /\ nextId = 0
    /\ batch = << >>
    /\ delivered = {}
    /\ removed = {}
    /\ evicted = {}
    /\ owed = {}

\* initSyncService(), called once when the application starts
InitSyncService ==
    /\ ~initialised
    /\ initialised' = TRUE
    /\ state' = [state EXCEPT !.items = loadQueue]
    /\ checking' = TRUE
    /\ UNCHANGED <<storedQueue, passes, nextId, batch, delivered, removed, evicted,
                   otherThanSync>>
    /\ owed' = {}

\* A listener of initSyncService finds the network connected or not:
\* processQueue() when it is connected and the queue is not empty
WhenOnline(isOnline) ==
    IF isOnline /\ state.items # << >>
    THEN /\ HasFreePass
         /\ state' = processQueue(state, FreePass).state
         /\ passes' = processQueue(state, FreePass).passes
         /\ batch' = << >>
    ELSE UNCHANGED <<state, passes, batch>>

\* checkNetworkStatus() of initSyncService is answered
InitialCheckAnswers(isOnline) ==
    /\ checking
    /\ checking' = FALSE
    /\ WhenOnline(isOnline)
    /\ UNCHANGED <<storedQueue, initialised, nextId, delivered, removed, evicted,
                   otherThanSync>>
    /\ owed' = StillOwed(owed)

\* uni.onNetworkStatusChange calls the listener of initSyncService
NetworkChanges(isOnline) ==
    /\ initialised
    /\ WhenOnline(isOnline)
    /\ UNCHANGED <<storedQueue, initialised, checking, nextId, delivered, removed, evicted,
                   otherThanSync>>
    /\ owed' = StillOwed(IF isOnline THEN owed \cup IdsOf(state.items) ELSE owed)

\* The application calls processQueue()
CallProcessQueue ==
    /\ initialised
    /\ HasFreePass
    /\ state' = processQueue(state, FreePass).state
    /\ passes' = processQueue(state, FreePass).passes
    /\ batch' = << >>
    /\ UNCHANGED <<storedQueue, initialised, checking, nextId, delivered, removed, evicted,
                   otherThanSync>>
    /\ owed' = StillOwed(owed)

\* A queue without a limit
AfterShiftNever(queue) == queue

\* A queue that drops its newest item when it is full
AfterShiftNewest(queue) ==
    IF Len(queue) >= QueueCapacity THEN SubSeq(queue, 1, Len(queue) - 1) ELSE queue

\* if (state.items.length >= appConfig.maxOfflineQueueSize) state.items.shift()
AfterShift(queue) == IF Len(queue) >= QueueCapacity THEN Tail(queue) ELSE queue

\* The item addToQueue makes of its argument
NewItem(id, maxRetry) ==
    [id |-> id, timestamp |-> id, retryCount |-> 0,
     maxRetry |-> IF maxRetry = 0 THEN DefaultMaxRetry ELSE maxRetry]

\* addToQueue(item) with item.maxRetry = maxRetry
AddToQueue(maxRetry) ==
    /\ initialised
    /\ nextId < MaxAdds
    /\ LET queue == Append(AfterShift(state.items), NewItem(nextId + 1, maxRetry))
       IN  /\ state' = [state EXCEPT !.items = queue]
           /\ storedQueue' = serialize(queue)
           /\ evicted' = evicted \cup (IdsOf(state.items) \ IdsOf(queue))
    /\ nextId' = nextId + 1
    /\ batch' = Append(batch, nextId + 1)
    /\ UNCHANGED <<initialised, checking, passes, delivered, removed, otherThanSync>>
    /\ owed' = StillOwed(owed)

\* removeFromQueue(id)
RemoveFromQueue(id) ==
    /\ initialised
    /\ id <= nextId
    /\ LET index == FindIndex(state.items, id)
       IN  IF index > 0
           THEN /\ state' = [state EXCEPT !.items = Splice(@, index)]
                /\ storedQueue' = serialize(Splice(state.items, index))
                /\ removed' = removed \cup {id}
           ELSE UNCHANGED <<state, storedQueue, removed>>
    /\ batch' = << >>
    /\ UNCHANGED <<initialised, checking, passes, nextId, delivered, evicted, otherThanSync>>
    /\ owed' = StillOwed(owed)

\* clearQueue()
ClearQueue ==
    /\ initialised
    /\ state' = [state EXCEPT !.items = << >>]
    /\ storedQueue' = serialize(<< >>)
    /\ removed' = removed \cup IdsOf(state.items)
    /\ batch' = << >>
    /\ UNCHANGED <<initialised, checking, passes, nextId, delivered, evicted, otherThanSync>>
    /\ owed' = StillOwed(owed)

\* The request of processItem is answered with success: removeFromQueue, and
\* the loop goes on
SendSucceeds(p) ==
    /\ passes[p].pc = "sending"
    /\ LET item == passes[p].itemsToProcess[passes[p].index]
           index == FindIndex(state.items, item.id)
           queue == IF index > 0 THEN Splice(state.items, index) ELSE state.items
           saved == IF index > 0 THEN serialize(queue) ELSE storedQueue
       IN  /\ NextItem(p, queue, saved, passes[p].success + 1, passes[p].failed)
           /\ delivered' = delivered \cup {item.id}
    /\ batch' = << >>
    /\ UNCHANGED <<initialised, checking, nextId, removed, evicted, otherThanSync>>
    /\ owed' = StillOwed(owed)

\* The request of processItem fails: the retry count of the item goes up
SendFails(p) ==
    /\ passes[p].pc = "sending"
    /\ LET item == passes[p].itemsToProcess[passes[p].index]
           index == FindIndex(state.items, item.id)
           queue == IF index > 0 THEN [state.items EXCEPT ![index].retryCount = @ + 1]
                    ELSE state.items
           exhausted == index > 0 /\ queue[index].retryCount >= queue[index].maxRetry
       IN  /\ index > 0 => state.items[index].retryCount < MaxFailures
           /\ NextItem(p, queue, storedQueue, passes[p].success,
                       passes[p].failed + (IF exhausted THEN 1 ELSE 0))
    /\ batch' = << >>
    /\ UNCHANGED <<initialised, checking, nextId, delivered, removed, evicted, otherThanSync>>
    /\ owed' = StillOwed(owed)

\* The application is closed and started again: the module state is new,
\* storage is kept
Restart ==
    /\ initialised
    /\ initialised' = FALSE
    /\ checking' = FALSE
    /\ state' = [isSyncing |-> FALSE, items |-> << >>]
    /\ passes' = [p \in PassIds |-> IdlePass]
    /\ batch' = << >>
    /\ UNCHANGED <<storedQueue, nextId, delivered, removed, evicted, otherThanSync>>
    /\ owed' = {}

SyncNext ==
    \/ InitSyncService
    \/ \E isOnline \in BOOLEAN : InitialCheckAnswers(isOnline)
    \/ \E isOnline \in BOOLEAN : NetworkChanges(isOnline)
    \/ CallProcessQueue
    \/ \E maxRetry \in MaxRetryInputs : AddToQueue(maxRetry)
    \/ \E id \in ItemIds : RemoveFromQueue(id)
    \/ ClearQueue
    \/ \E p \in PassIds : SendSucceeds(p)
    \/ \E p \in PassIds : SendFails(p)
    \/ Restart

SpecSync == SyncInit /\ [][SyncNext]_vars

\* Every request of a pass is answered in the end
SpecSyncFair ==
    SpecSync /\ WF_vars(\E p \in PassIds : SendSucceeds(p) \/ SendFails(p))

\* The last n items of a list
LastOf(queue, n) == SubSeq(queue, Len(queue) - n + 1, Len(queue))

\* The items of queue are new and have the ids of ids, in that order
NewInOrder(queue, ids) ==
    /\ Len(queue) = Len(ids)
    /\ \A i \in DOMAIN queue : queue[i].id = ids[i] /\ queue[i].retryCount = 0

Room == IF Len(batch) <= QueueCapacity THEN Len(batch) ELSE QueueCapacity

StillQueued(id) ==
    /\ id \in IdsOf(loadQueue)
    /\ initialised => id \in IdsOf(getQueue)

Adds == nextId' = nextId + 1

\* C21: the offline queue never holds more than maxOfflineQueueSize items;
\* addToQueue on a full queue removes exactly the oldest item and appends the
\* new one, and on any other queue it only appends: the items that stay keep
\* their order.
C21_QueueKeepsToItsCapacity ==
    /\ [](Len(state.items) <= QueueCapacity)
    /\ [][Adds =>
            /\ Len(state'.items) >= 1
            /\ state'.items[Len(state'.items)].id = nextId'
            /\ SubSeq(state'.items, 1, Len(state'.items) - 1) =
                 IF Len(state.items) >= QueueCapacity THEN Tail(state.items)
                 ELSE state.items]_vars

\* The first item has been dropped by an addToQueue on a full queue, which
\* holds the two items added after it.
C21_Witness ==
    /\ evicted = {1}
    /\ Len(getQueue) = 2
    /\ getQueue[1].id = 2 /\ getQueue[2].id = 3
    /\ removed = {} /\ delivered = {}

\* C22: after initSyncService, every item that is in the queue when the
\* network status changes to connected is sent to the server at least once
\* afterwards, unless it leaves the queue or the application restarts first;
\* every request is answered in the end.
C22_QueuedItemsSentWhenOnline ==
    \A id \in ItemIds : (id \in owed) ~> (id \notin owed)

-----------------------------------------------------------------------------
(* Storage: serialize(value, expire) and deserialize(str)                  *)

MaxClock == 3000     \* the last Date.now() of a run, in milliseconds

\* The number NaN
NaN == [k |-> "number", nan |-> TRUE]

\* JSON.stringify(x) for an x inside a document, as the JSON document it
\* writes: NaN and an undefined array element become null, a property whose
\* value is undefined is left out
RECURSIVE JSONstringify(_)
JSONstringify(x) ==
    CASE x.k \in {"null", "undefined"} -> [j |-> "null"]
      [] x.k = "number" -> IF "nan" \in DOMAIN x THEN [j |-> "null"]
                           ELSE [j |-> "number", v |-> x.v]
      [] x.k \in {"boolean", "string"} -> [j |-> x.k, v |-> x.v]
      [] x.k = "array" -> [j |-> "array", v |-> [i \in DOMAIN x.v |-> JSONstringify(x.v[i])]]
      [] x.k = "object" ->
           [j |-> "object",
            v |-> [n \in { name \in DOMAIN x.v : x.v[name].k # "undefined" } |->
                      JSONstringify(x.v[n])]]

\* JSON.parse(str)
RECURSIVE JSONparse(_)
JSONparse(str) ==
    CASE str.j = "null" -> Null
      [] str.j \in {"number", "boolean", "string"} -> [k |-> str.j, v |-> str.v]
      [] str.j = "array" -> Arr([i \in DOMAIN str.v |-> JSONparse(str.v[i])])
      [] str.j = "object" -> Obj([n \in DOMAIN str.v |-> JSONparse(str.v[n])])

\* serialize(value, expire) at Date.now() = now
serializeAt(value, expire, now) ==
    JSONstringify(Obj([data |-> value,
                       meta |-> Obj([createdAt |-> Num(now),
                                     expireAt |-> IF Falsy(expire) THEN Undefined
                                                  ELSE Num(now + expire.v * 1000)])]))

\* An entry that expires at the very millisecond of its expiry time
ExpiredAtOrAfter(now, expireAt) == now >= expireAt

\* Date.now() > wrapper.meta.expireAt
Expired(now, expireAt) == now > expireAt

\* deserialize(str) at Date.now() = now; a wrapper without meta falls to the
\* catch block, which returns JSON.parse(str)
deserializeAt(str, now) ==
    LET wrapper == JSONparse(str)
    IN  IF ReadThrows(wrapper) \/ ReadThrows(Get(wrapper, "meta"))
        THEN JSONparse(str)
        ELSE LET expireAt == Get(Get(wrapper, "meta"), "expireAt")
             IN  IF expireAt.k = "number" /\ ~Falsy(expireAt) /\ Expired(now, expireAt.v)
                 THEN Null
                 ELSE Get(wrapper, "data")

\* The values given to serialize: JSON values, and values that JSON cannot
\* hold (undefined, NaN)
StorageValues ==
    { Null, Bool(TRUE), Num(0), Num(7), Str(""), Str("a"), Undefined, NaN,
      Arr(<< >>), Arr(<< Num(1), Str("a") >>), Arr(<< Undefined >>),
      Obj(NoProps), Obj([a |-> Num(1), b |-> Null]), Obj([a |-> Undefined]),
      Obj([a |-> Arr(<< Obj([b |-> Bool(FALSE)]) >>)]),
      Obj([data |-> Num(1), meta |-> Obj([expireAt |-> Num(1)])]) }

\* The expire arguments, in seconds
ExpireInputs == { Undefined, Num(0), Num(1), Num(2) }

StorageInit ==
    /\ ExceptionUnused
    /\ ReportUnused
    /\ LogUnused
    /\ AccessUnused
    /\ ParserUnused
    /\ HostUnused
    /\ registry = {}
    /\ RenderUnused
    /\ BindingsUnused
    /\ CallsUnused
    /\ RetryUnused
    /\ TokenUnused
    /\ SyncUnused
    /\ storedText = None
    /\ original = None
    /\ expiry = None
    /\ writtenAt = 0
    /\ dateNow = 0
    /\ readBack = None
    /\ readAt = 0

\* serialize(value, expire)
Serialize(value, expire) ==
    /\ storedText = None
    /\ storedText' = serializeAt(value, expire, dateNow)
    /\ original' = value
    /\ expiry' = expire
    /\ writtenAt' = dateNow
    /\ UNCHANGED <<dateNow, readBack, readAt, otherThanStorage>>

\* Half a second passes
Tick ==
    /\ dateNow + 500 <= MaxClock
    /\ dateNow' = dateNow + 500
    /\ UNCHANGED <<storedText, original, expiry, writtenAt, readBack, readAt, otherThanStorage>>

\* deserialize(str) of what serialize returned
Deserialize ==
    /\ storedText # None
    /\ readBack' = deserializeAt(storedText, dateNow)
    /\ readAt' = dateNow
    /\ UNCHANGED <<storedText, original, expiry, writtenAt, dateNow, otherThanStorage>>

StorageNext ==
    \/ \E value \in StorageValues : \E expire \in ExpireInputs : Serialize(value, expire)
    \/ Tick
    \/ Deserialize

SpecStorage == StorageInit /\ [][StorageNext]_vars

\* x is a JSON value: no undefined and no NaN in it
RECURSIVE IsJsonSerializable(_)
IsJsonSerializable(x) ==
    CASE x.k = "undefined" -> FALSE
      [] x.k = "number" -> "nan" \notin DOMAIN x
      [] x.k = "array" -> \A i \in DOMAIN x.v : IsJsonSerializable(x.v[i])
      [] x.k = "object" -> \A n \in DOMAIN x.v : IsJsonSerializable(x.v[n])
      [] OTHER -> TRUE

\* deserialize has returned something for a JSON value
ReadJsonValue == readBack # None /\ IsJsonSerializable(original)

-----------------------------------------------------------------------------
(* Auth service: hasPageAccess(pageCode)                                   *)

MaxPermissions == 2     \* the longest permission list of a user

\* The permission strings of the users and the page codes asked for
PermissionStrings == { "", "a", "b", "page:a" }

\* userInfo.permissions: a list, or undefined
UserPermissionLists ==
    { Undefined } \cup
    { Arr(list) : list \in UNION { [1..n -> PermissionStrings] : n \in 0..MaxPermissions } }

\* list.includes(permission)
Includes(list, permission) == \E i \in DOMAIN list : list[i] = permission

\* hasPageAccess that knows no page: prefix
hasPageAccessPlain(code) ==
    IF code = "" THEN TRUE ELSE Includes(cachedPermissions, code)

\* hasPageAccess(pageCode)
hasPageAccess(code) ==
    IF code = "" THEN TRUE
    ELSE Includes(cachedPermissions, "page:" \o code) \/ Includes(cachedPermissions, code)

AccessInit ==
    /\ ExceptionUnused
    /\ ReportUnused
    /\ LogUnused
    /\ ParserUnused
    /\ HostUnused
    /\ registry = {}
    /\ RenderUnused
    /\ BindingsUnused
    /\ CallsUnused
    /\ RetryUnused
    /\ TokenUnused
    /\ SyncUnused
    /\ StorageUnused
    /\ cachedPermissions = << >>
    /\ access = None

\* saveUserInfo(userInfo) after a login: cachedPermissions = userInfo.permissions || []
SaveUserInfo(list) ==
    /\ cachedPermissions' = IF Falsy(list) THEN << >> ELSE list.v
    /\ UNCHANGED <<access, otherThanAccess>>

\* clearAuthCache() of a logout
ClearAuthCache ==
    /\ cachedPermissions' = << >>
    /\ UNCHANGED <<access, otherThanAccess>>

\* Some code calls hasPageAccess(code)
CallHasPageAccess(code) ==
    /\ access' = [pageCode |-> code, result |-> hasPageAccess(code)]
    /\ UNCHANGED <<cachedPermissions, otherThanAccess>>

AccessNext ==
    \/ \E list \in UserPermissionLists : SaveUserInfo(list)
    \/ ClearAuthCache
    \/ \E code \in PermissionStrings : CallHasPageAccess(code)

SpecAccess == AccessInit /\ [][AccessNext]_vars

RunningPasses == { p \in PassIds : passes[p].pc = "sending" }

\* processQueue() is called in this step while a pass is running: the call
\* takes the slot p, returns { success: 0, failed: 0 } and leaves the queue
\* and the running pass as they are.
CallDuringPassDoesNothing ==
    \A p \in PassIds :
        state.isSyncing /\ initialised' /\ passes[p].pc # "sending" /\ passes'[p] # passes[p] =>
            /\ passes'[p].pc = "done"
            /\ passes'[p].result = [success |-> 0, failed |-> 0]
            /\ \A q \in PassIds \ {p} : passes'[q] = passes[q]
            /\ state' = state
            /\ storedQueue' = storedQueue

\* C25: at most one processQueue pass runs at a time, and isSyncing is true
\* exactly while one runs; a call made during a pass returns
\* { success: 0, failed: 0 } and sends nothing; and, every request being
\* answered in the end, every pass that has started ends, with isSyncing
\* false again.
C25_OnePassAtATime ==
    /\ [](Cardinality(RunningPasses) <= 1 /\ (state.isSyncing <=> RunningPasses # {}))
    /\ [][CallDuringPassDoesNothing]_vars
    /\ \A p \in PassIds : (passes[p].pc = "sending") ~> (passes[p].pc # "sending")

\* A pass is running, and a call made meanwhile has returned
\* { success: 0, failed: 0 }.
C25_Witness ==
    /\ state.isSyncing
    /\ \E p, q \in PassIds :
          /\ passes[p].pc = "sending"
          /\ passes[q].pc = "done"
          /\ passes[q].result = [success |-> 0, failed |-> 0]

\* The item has failed as often as it may
Exhausted(item) == item.retryCount >= item.maxRetry

\* getQueueStatus() on the queue
getQueueStatus(queue) ==
    LET failed == Cardinality({ i \in 1..Len(queue) : Exhausted(queue[i]) })
    IN  [total |-> Len(queue), pending |-> Len(queue) - failed, failed |-> failed]

\* C28: for every item in the offline queue, retryCount never exceeds
\* maxRetry.
C28_RetryCountWithinMaxRetry ==
    \A i \in 1..Len(state.items) : state.items[i].retryCount <= state.items[i].maxRetry

\* A pass sends, in this step, only items that have not failed maxRetry times
\* (the second half of C28: an item that getQueueStatus counts as failed is
\* not sent again).
C28_ExhaustedItemsNotSent ==
    [][\A p \in PassIds :
          /\ passes'[p].pc = "sending"
          /\ passes[p].pc = "sending" => passes'[p].index # passes[p].index
          => LET sent == FindIndex(state'.items, passes'[p].itemsToProcess[passes'[p].index].id)
             IN  sent > 0 => ~Exhausted(state'.items[sent])]_vars

-----------------------------------------------------------------------------
(* C26: calls of initPage that overlap                                     *)

\* The configuration that call r of initPage was made for
ConfigOf(r) == IF Falsy(runs[r].code) THEN DirectConfig ELSE ServerPages[runs[r].code.v]

\* Call r of initPage has been made and has not finished.
Running(r) == runs[r].pc \notin {"idle", "done"}

\* What the requests of the calls other than r were answered with
FetchedByOthers(r) == { FetchedData(q, i) : q \in Runs \ {r}, i \in FetchIndexes }

\* While the latest call of initPage is running, loading is true.
LoadingUntilLatestFinished == \A r \in Runs : Running(r) /\ IsLatestRun(r) => loading

\* Once every call of initPage has finished and the latest one succeeded,
\* the data-source map has the sources of its configuration, with no value
\* that a request of another call fetched.
MapOfLatestRun ==
    \A r \in Runs :
        /\ runs[r].pc = "done" /\ IsLatestRun(r) /\ Falsy(runs[r].failure)
        /\ \A q \in Runs : ~Running(q)
        => /\ MapKeys(dataSources)
                = MapKeys(parsePageConfig(ConfigOf(r), userPermissions).dataSources)
           /\ \A key \in MapKeys(dataSources) : MapGet(dataSources, key) \notin FetchedByOthers(r)

\* C26: when initPage is called again while an earlier call is still
\* loading, the earlier call never writes into the state of the later one:
\* loading stays true until the latest call has finished, and once all calls
\* have finished the data-source map holds only the sources of the latest
\* configuration, with values fetched for it.
C26_EarlierRunLeavesLaterAlone == LoadingUntilLatestFinished /\ MapOfLatestRun

-----------------------------------------------------------------------------
(* services/log: the cache of log entries, flush and clearLogs. Entries are *)
(* named by the order in which they were logged; the service has its        *)
(* default configuration with an uploadUrl set.                             *)

MaxLogCount == 3       \* MAX_LOG_COUNT, scaled down
UploadBatchSize == 2   \* UPLOAD_BATCH_SIZE, scaled down
MaxEntries == 4        \* entries logged in one behaviour
MaxFlushes == 2        \* calls of flush in one behaviour

Entries == 1..MaxEntries
FlushIds == 1..MaxFlushes

\* The entries of a list
EntriesOf(logs) == { logs[n] : n \in 1..Len(logs) }

\* logs.slice(start) for start >= 0
SliceFrom(logs, start) == SubSeq(logs, start + 1, Len(logs))

\* logs.slice(-count)
SliceLast(logs, count) ==
    IF Len(logs) > count THEN SubSeq(logs, Len(logs) - count + 1, Len(logs)) ELSE logs

\* logs.slice(start, end)
SliceBetween(logs, start, end) ==
    SubSeq(logs, start + 1, IF end < Len(logs) THEN end ELSE Len(logs))

\* saveToStorage() on the cache: the cache it leaves, which it stores
saveToStorage(cache) ==
    IF Len(cache) > MaxLogCount THEN SliceLast(cache, MaxLogCount) ELSE cache

\* What storage.set(LOG_STORAGE_KEY, cache) leaves in storage
Stored(cache) == [k |-> "stored", v |-> cache]

\* A call of flush that has not been made
IdleFlush == [pc |-> "idle", logsToUpload |-> << >>, i |-> 0, uploadedCount |-> 0]

HasFreeFlush == \E f \in FlushIds : flushes[f].pc = "idle"
FreeFlush == CHOOSE f \in FlushIds : flushes[f].pc = "idle" /\ \A g \in 1..(f - 1) : flushes[g].pc # "idle"

\* const batch = logsToUpload.slice(i, i + UPLOAD_BATCH_SIZE) of call f
Chunk(f) == SliceBetween(flushes[f].logsToUpload, flushes[f].i, flushes[f].i + UploadBatchSize)

LogInit ==
    /\ ExceptionUnused
    /\ ReportUnused
    /\ AccessUnused
    /\ StorageUnused
    /\ SyncUnused
    /\ TokenUnused
    /\ RetryUnused
    /\ CallsUnused
    /\ BindingsUnused
    /\ RenderUnused
    /\ HostUnused
    /\ ParserUnused
    /\ registry = {}
    /\ logCache = << >>
    /\ storedLogs = None
    /\ flushes = [f \in FlushIds |-> IdleFlush]
    /\ nextEntry = 0
    /\ uploadCount = [e \in Entries |-> 0]
    /\ deleted = {}

\* logService.debug / info / warn / error: addLogEntry(entry)
AddLogEntry ==
    /\ nextEntry < MaxEntries
    /\ nextEntry' = nextEntry + 1
    /\ logCache' = saveToStorage(Append(logCache, nextEntry + 1))
    /\ storedLogs' = Stored(logCache')
    /\ UNCHANGED <<flushes, uploadCount, deleted, otherThanLog>>

\* clearLogs()
ClearLogs ==
    /\ logCache # << >> \/ storedLogs # None
    /\ logCache' = << >>
    /\ storedLogs' = None
    /\ UNCHANGED <<flushes, nextEntry, uploadCount, deleted, otherThanLog>>

\* flush() up to its first await: the cache is copied and the first batch
\* is sent
Flush ==
    /\ HasFreeFlush
    /\ flushes' = [flushes EXCEPT ![FreeFlush] =
                     IF logCache = << >> THEN [IdleFlush EXCEPT !.pc = "done"]
                     ELSE [IdleFlush EXCEPT !.pc = "uploading", !.logsToUpload = logCache]]
    /\ UNCHANGED <<logCache, storedLogs, nextEntry, uploadCount, deleted, otherThanLog>>

\* The end of flush, count entries having been uploaded:
\* if (uploadedCount > 0) { logCache = logCache.slice(uploadedCount); await saveToStorage() }
RemoveUploaded(f, count) ==
    /\ flushes' = [flushes EXCEPT ![f].pc = "done", ![f].uploadedCount = count]
    /\ IF count > 0
       THEN /\ logCache' = saveToStorage(SliceFrom(logCache, count))
            /\ storedLogs' = Stored(logCache')
            /\ deleted' = deleted \cup (EntriesOf(logCache) \ EntriesOf(logCache'))
       ELSE UNCHANGED <<logCache, storedLogs, deleted>>

\* The request of uploadLogs(batch) succeeds: the next batch is sent, or the
\* loop ends.
UploadSucceeds(f) ==
    /\ flushes[f].pc = "uploading"
    /\ uploadCount' = [e \in Entries |->
                         IF e \in EntriesOf(Chunk(f)) THEN uploadCount[e] + 1 ELSE uploadCount[e]]
    /\ LET count == flushes[f].uploadedCount + Len(Chunk(f))
       IN  IF flushes[f].i + UploadBatchSize < Len(flushes[f].logsToUpload)
           THEN /\ flushes' = [flushes EXCEPT ![f].i = @ + UploadBatchSize,
                                              ![f].uploadedCount = count]
                /\ UNCHANGED <<logCache, storedLogs, deleted>>
           ELSE RemoveUploaded(f, count)
    /\ UNCHANGED <<nextEntry, otherThanLog>>

\* The request of uploadLogs(batch) fails: uploadLogs returns false and the
\* loop breaks.
UploadFails(f) ==
    /\ flushes[f].pc = "uploading"
    /\ RemoveUploaded(f, flushes[f].uploadedCount)
    /\ UNCHANGED <<nextEntry, uploadCount, otherThanLog>>

LogNext ==
    \/ AddLogEntry
    \/ ClearLogs
    \/ Flush
    \/ \E f \in FlushIds : UploadSucceeds(f)
    \/ \E f \in FlushIds : UploadFails(f)

SpecLog == LogInit /\ [][LogNext]_vars

\* The entries that call f of flush has uploaded successfully
UploadedBy(f) == EntriesOf(SubSeq(flushes[f].logsToUpload, 1, flushes[f].uploadedCount))

\* No entry was uploaded twice.
NoEntryUploadedTwice == \A e \in Entries : uploadCount[e] <= 1

\* Every entry that a flush removed from the cache had been uploaded.
NoEntryDeletedUnsent == \A e \in deleted : uploadCount[e] >= 1

\* A flush that has ended has left none of the entries it uploaded.
UploadedEntriesRemoved ==
    \A f \in FlushIds : flushes[f].pc = "done" => UploadedBy(f) \cap EntriesOf(logCache) = {}

\* C27: flush removes from the log cache exactly the entries it has uploaded
\* successfully: whatever is logged, cleared, trimmed or flushed meanwhile,
\* no entry is removed by a flush without having been uploaded, none is
\* uploaded twice, and none that a flush uploaded is left in the cache when
\* the flush ends.
C27_FlushRemovesExactlyUploaded ==
    NoEntryUploadedTwice /\ NoEntryDeletedUnsent /\ UploadedEntriesRemoved

-----------------------------------------------------------------------------
(* useWorkReport: updateQuantity and resetForm on the quantities of the    *)
(* report form                                                             *)

MaxQuantity == 5   \* the arguments of updateQuantity are in -MaxQuantity..MaxQuantity

\* Math.max(a, b) and Math.min(a, b) of two integers
MathMax(a, b) == IF a >= b THEN a ELSE b
MathMin(a, b) == IF a <= b THEN a ELSE b

QuantityInputs == { Num(n) : n \in -MaxQuantity..MaxQuantity }

\* reactive<WorkReportForm>({ ..., quantity: 0, qualifiedQty: 0, unqualifiedQty: 0, ... })
EmptyForm == [quantity |-> 0, qualifiedQty |-> 0, unqualifiedQty |-> 0]

\* updateQuantity(quantity, qualifiedQty): the quantities it leaves
updateQuantity(quantity, qualifiedQty) ==
    IF qualifiedQty # Undefined
    THEN LET qualified == MathMax(0, MathMin(qualifiedQty.v, quantity.v))
         IN  [quantity |-> MathMax(0, quantity.v), qualifiedQty |-> qualified,
              unqualifiedQty |-> quantity.v - qualified]
    ELSE [quantity |-> MathMax(0, quantity.v), qualifiedQty |-> quantity.v, unqualifiedQty |-> 0]

ReportInit ==
    /\ ExceptionUnused
    /\ LogUnused
    /\ AccessUnused
    /\ StorageUnused
    /\ SyncUnused
    /\ TokenUnused
    /\ RetryUnused
    /\ CallsUnused
    /\ BindingsUnused
    /\ RenderUnused
    /\ HostUnused
    /\ ParserUnused
    /\ registry = {}
    /\ reportForm = EmptyForm
    /\ lastUpdate = None

UpdateQuantity(quantity, qualifiedQty) ==
    /\ reportForm' = updateQuantity(quantity, qualifiedQty)
    /\ lastUpdate' = [quantity |-> quantity, qualifiedQty |-> qualifiedQty]
    /\ UNCHANGED otherThanReport

\* resetForm(), as far as the quantities go
ResetForm ==
    /\ reportForm' = EmptyForm
    /\ lastUpdate' = None
    /\ UNCHANGED otherThanReport

ReportNext ==
    \/ \E quantity \in QuantityInputs : \E qualifiedQty \in QuantityInputs \cup {Undefined} :
          UpdateQuantity(quantity, qualifiedQty)
    \/ ResetForm

SpecReport == ReportInit /\ [][ReportNext]_vars

\* quantity >= 0, 0 <= qualifiedQty <= quantity, qualifiedQty + unqualifiedQty = quantity
QuantitiesConsistent(form) ==
    /\ form.quantity >= 0
    /\ 0 <= form.qualifiedQty
    /\ form.qualifiedQty <= form.quantity
    /\ form.qualifiedQty + form.unqualifiedQty = form.quantity

\* C29: after any sequence of updateQuantity and resetForm calls with
\* arbitrary numeric arguments, the form has quantity >= 0,
\* 0 <= qualifiedQty <= quantity and qualifiedQty + unqualifiedQty = quantity.
C29_QuantitiesConsistent == QuantitiesConsistent(reportForm)

\* The same of the calls whose quantity argument is not negative
C29_ConsistentForQuantityFromZero ==
    lastUpdate # None /\ lastUpdate.quantity.v >= 0 => QuantitiesConsistent(reportForm)

-----------------------------------------------------------------------------
(* useException: startHandle, handleException and closeException on the    *)
(* records that loadExceptions has loaded. handleForm.handleResult is      *)
(* filled in by the page, which binds its input to the form.               *)

MaxHandles == 2   \* calls of handleException that await onHandle at once

ExceptionIdInputs == {"1", "2", "9"}
StatusValues == {"pending", "processing", "resolved", "closed"}
HandleResultInputs == {"", " ", "fixed"}

\* handleResult.trim(), on the strings of HandleResultInputs
Trim(text) == IF text = " " THEN "" ELSE text

\* What onLoadExceptions can answer with: the records '1' and '2', each in
\* any status
LoadedLists ==
    { << [id |-> "1", status |-> s1], [id |-> "2", status |-> s2] >> : s1, s2 \in StatusValues }

\* exceptions.value.findIndex((e) => e.id === exceptionId) + 1, 0 when there is none
FindException(list, exceptionId) ==
    IF \E n \in 1..Len(list) : list[n].id = exceptionId
    THEN CHOOSE n \in 1..Len(list) :
            list[n].id = exceptionId /\ \A o \in 1..(n - 1) : list[o].id # exceptionId
    ELSE 0

\* resetHandleForm()
EmptyHandleForm == [exceptionId |-> "", handleResult |-> ""]

ExceptionInit ==
    /\ ReportUnused
    /\ LogUnused
    /\ AccessUnused
    /\ StorageUnused
    /\ SyncUnused
    /\ TokenUnused
    /\ RetryUnused
    /\ CallsUnused
    /\ BindingsUnused
    /\ RenderUnused
    /\ HostUnused
    /\ ParserUnused
    /\ registry = {}
    /\ exceptions = << >>
    /\ handleForm = EmptyHandleForm
    /\ submitting = FALSE
    /\ errorMessage = Null
    /\ handling = 0

\* loadExceptions(), the first time: exceptions.value = await onLoadExceptions(...)
LoadExceptions(list) ==
    /\ exceptions = << >>
    /\ exceptions' = list
    /\ errorMessage' = Null
    /\ UNCHANGED <<handleForm, submitting, handling, otherThanException>>

\* startHandle(exceptionId)
StartHandle(exceptionId) ==
    /\ handleForm' = [handleForm EXCEPT !.exceptionId = exceptionId]
    /\ LET found == FindException(exceptions, exceptionId)
       IN  exceptions' = IF found > 0 /\ exceptions[found].status = "pending"
                         THEN [exceptions EXCEPT ![found].status = "processing"]
                         ELSE exceptions
    /\ UNCHANGED <<submitting, errorMessage, handling, otherThanException>>

\* The user types the result into the form: handleForm.handleResult = text
SetHandleResult(text) ==
    /\ text # handleForm.handleResult
    /\ handleForm' = [handleForm EXCEPT !.handleResult = text]
    /\ UNCHANGED <<exceptions, submitting, errorMessage, handling, otherThanException>>

\* handleException() up to its await of onHandle(handleForm)
HandleException ==
    /\ handling < MaxHandles
    /\ IF handleForm.exceptionId = ""
       THEN /\ errorMessage' = Str("no exception selected")
            /\ UNCHANGED <<submitting, handling>>
       ELSE IF Trim(handleForm.handleResult) = ""
       THEN /\ errorMessage' = Str("no handle result")
            /\ UNCHANGED <<submitting, handling>>
       ELSE /\ submitting' = TRUE
            /\ errorMessage' = Null
            /\ handling' = handling + 1
    /\ UNCHANGED <<exceptions, handleForm, otherThanException>>

\* onHandle resolves with true: the record that handleForm names now is
\* resolved and the form is reset
HandleSucceeds ==
    /\ handling > 0
    /\ handling' = handling - 1
    /\ LET found == FindException(exceptions, handleForm.exceptionId)
       IN  exceptions' = IF found > 0 THEN [exceptions EXCEPT ![found].status = "resolved"]
                         ELSE exceptions
    /\ handleForm' = EmptyHandleForm
    /\ submitting' = FALSE
    /\ UNCHANGED <<errorMessage, otherThanException>>

\* onHandle resolves with false (rejected FALSE) or is rejected
HandleFails(rejected) ==
    /\ handling > 0
    /\ handling' = handling - 1
    /\ submitting' = FALSE
    /\ errorMessage' = IF rejected THEN Str("handling failed") ELSE errorMessage
    /\ UNCHANGED <<exceptions, handleForm, otherThanException>>

\* closeException(exceptionId)
CloseException(exceptionId) ==
    /\ LET found == FindException(exceptions, exceptionId)
       IN  /\ found > 0 /\ exceptions[found].status = "resolved"
           /\ exceptions' = [exceptions EXCEPT ![found].status = "closed"]
    /\ UNCHANGED <<handleForm, submitting, errorMessage, handling, otherThanException>>

ExceptionNext ==
    \/ \E list \in LoadedLists : LoadExceptions(list)
    \/ \E exceptionId \in ExceptionIdInputs : StartHandle(exceptionId)
    \/ \E text \in HandleResultInputs : SetHandleResult(text)
    \/ HandleException
    \/ HandleSucceeds
    \/ \E rejected \in BOOLEAN : HandleFails(rejected)
    \/ \E exceptionId \in ExceptionIdInputs : CloseException(exceptionId)

SpecException == ExceptionInit /\ [][ExceptionNext]_vars

\* The place of a status in pending -> processing -> resolved -> closed
StatusRank(status) ==
    CASE status = "pending" -> 1
      [] status = "processing" -> 2
      [] status = "resolved" -> 3
      [] status = "closed" -> 4

\* C30: the status of an exception record only moves forward along
\* pending -> processing -> resolved -> closed: no step of startHandle,
\* handleException or closeException takes a record to an earlier status,
\* and so a closed record never changes status again.
C30_StatusOnlyMovesForward ==
    [][\A n \in 1..Len(exceptions) :
          StatusRank(exceptions'[n].status) >= StatusRank(exceptions[n].status)]_vars

\* The same of the records that are not closed when the step is taken
C30_OpenStatusOnlyMovesForward ==
    [][\A n \in 1..Len(exceptions) :
          exceptions[n].status # "closed" =>
             StatusRank(exceptions'[n].status) >= StatusRank(exceptions[n].status)]_vars

=============================================================================
